---------------------------- MODULE Spec2Model ----------------------------
(***************************************************************************)
(* A model of fabber_core's run data (the FabberRunData class: option      *)
(* parsing, option access, output directory creation and the Run           *)
(* sequence).                                                              *)
(*                                                                         *)
(* A std::string is a sequence of one-character strings.  Positions are    *)
(* 0-based as in the C++ code; std::string::npos is NPos and size_t        *)
(* arithmetic is modular (SizeMod).                                        *)
(***************************************************************************)
EXTENDS Integers, Sequences, FiniteSets, TLC

VARIABLES
    m_params,   \* FabberRunData::m_params, the option map
    m_outdir,   \* FabberRunData::m_outdir
    fs,         \* the file system GetOutputDir makes directories in
    hist,       \* the m_outdir of the FabberRunData objects before this one
    argv,       \* the command line handed to Parse
    files,      \* the files by name: option files as strings, images as volumes
    given,      \* the options as they were written into argv or a file
    call,       \* the last operation called and its outcome
    pc,         \* where FabberRunData::Run stands
    events,     \* what Run has done so far
    m_last,     \* PercentProgressCheck::m_last
    m_voxel_data,       \* FabberRunData::m_voxel_data, matrices by key
    m_mainDataMultiple, \* FabberRunData::m_mainDataMultiple
    m_extent,           \* FabberRunData::m_extent
    m_dims,             \* FabberRunData::m_dims
    m_mask,             \* FabberIoNewimage::m_mask, one value per voxel
    m_have_mask,        \* FabberIoNewimage::m_have_mask
    m_have_coords       \* FabberIoNewimage::m_have_coords

vars == <<m_params, m_outdir, fs, hist, argv, files, given, call, pc, events,
          m_last,
          m_voxel_data, m_mainDataMultiple, m_extent, m_dims,
          m_mask, m_have_mask, m_have_coords>>

optVars == <<m_params>>
dirVars == <<m_outdir, fs, hist>>
parseVars == <<argv, files, given>>
runVars == <<pc, events, m_last>>
ioVars == <<m_mask, m_have_mask, m_have_coords>>
dataVars == <<m_voxel_data, m_mainDataMultiple, m_extent, m_dims, ioVars>>

-----------------------------------------------------------------------------
(* std::string primitives *)

\* size_t is unsigned and wraps; every modulus larger than twice the longest
\* string of the model gives the same results as 2^64.
SizeMod == 2 ^ 16

NPos == SizeMod - 1

Min(a, b) == IF a < b THEN a ELSE b

SizeSub(a, b) == (a - b + SizeMod) % SizeMod

SizeAdd(a, b) == (a + b) % SizeMod

\* str.substr(pos, n), also the constructor string(str, pos, n); every call
\* of the code has pos <= size, so out_of_range is never thrown
Substr(str, pos, n) ==
    LET cnt == Min(n, Len(str) - pos)
    IN  SubSeq(str, pos + 1, pos + cnt)

\* str.find(ch): 0-based position of the first ch, NPos when there is none
Find(str, ch) ==
    IF \E i \in 1..Len(str) : str[i] = ch
    THEN (CHOOSE i \in 1..Len(str) :
             str[i] = ch /\ \A j \in 1..(i - 1) : str[j] # ch) - 1
    ELSE NPos

FindFirstNotOf(str, ch) ==
    IF \E i \in 1..Len(str) : str[i] # ch
    THEN (CHOOSE i \in 1..Len(str) :
             str[i] # ch /\ \A j \in 1..(i - 1) : str[j] = ch) - 1
    ELSE NPos

FindLastNotOf(str, ch) ==
    IF \E i \in 1..Len(str) : str[i] # ch
    THEN (CHOOSE i \in 1..Len(str) :
             str[i] # ch /\ \A j \in (i + 1)..Len(str) : str[j] = ch) - 1
    ELSE NPos

\* isspace() in the "C" locale
IsSpace(c) == c \in {" ", "\n", "\t", "\r"}

\* trim stripping the blanks in front only
trim_FrontOnly(str) ==
    IF Len(str) = 0 THEN str
    ELSE LET firstScan == FindFirstNotOf(str, " ")
             first == IF firstScan = NPos THEN Len(str) ELSE firstScan
         IN  Substr(str, first, NPos)

\* static string trim(string const &str): strips ' ' only
trim(str) ==
    IF Len(str) = 0 THEN str
    ELSE LET firstScan == FindFirstNotOf(str, " ")
             first == IF firstScan = NPos THEN Len(str) ELSE firstScan
             last == FindLastNotOf(str, " ")
         IN  Substr(str, first, SizeAdd(SizeSub(last, first), 1))

-----------------------------------------------------------------------------
(* The option map m_params: a function from keys to values *)

HasKey(params, key) == key \in DOMAIN params

Put(params, key, value) ==
    [k \in (DOMAIN params) \cup {key} |-> IF k = key THEN value ELSE params[k]]

Erase(params, key) == [k \in (DOMAIN params) \ {key} |-> params[k]]

EmptyMap == [k \in {} |-> <<>>]

K_loadmodels == <<"l", "o", "a", "d", "m", "o", "d", "e", "l", "s">>

\* The outcome of an operation that may throw: err is "none" or the name of
\* the exception class; params is the option map as the operation left it.
Ok(params) == [params |-> params, err |-> "none"]

Raise(params, e) == [params |-> params, err |-> e]

\* AddKeyEqualsValue without the check that the key has no value yet
AddKeyEqualsValue_Overwrite(params, exp, trim_comments) ==
    LET eqPos == Find(exp, "=")
        key == trim(Substr(exp, 0, eqPos))
    IN  IF eqPos # NPos
        THEN LET end == IF trim_comments THEN Find(exp, "#") ELSE NPos
                 value == trim(Substr(exp, eqPos + 1, SizeSub(end, eqPos + 1)))
             IN  IF key = K_loadmodels
                 THEN Ok(params)
                 ELSE Ok(Put(params, key, value))
        ELSE Ok(Put(params, exp, <<>>))

\* FabberRunData::AddKeyEqualsValue(exp, trim_comments)
AddKeyEqualsValue(params, exp, trim_comments) ==
    LET eqPos == Find(exp, "=")
        key == trim(Substr(exp, 0, eqPos))
    IN  IF eqPos # NPos
        THEN LET end == IF trim_comments THEN Find(exp, "#") ELSE NPos
                 value == trim(Substr(exp, eqPos + 1, SizeSub(end, eqPos + 1)))
             IN  IF HasKey(params, key)
                 THEN Raise(params, "InvalidOptionValue")
                 ELSE IF key = K_loadmodels
                      THEN Ok(params)
                      ELSE Ok(Put(params, key, value))
        ELSE Ok(Put(params, exp, <<>>))

\* FabberRunData::Set(key, value)
SetOp(params, key, value) == Put(params, key, value)

\* FabberRunData::SetBool(key, value)
SetBoolOp(params, key, value) ==
    IF value THEN Put(params, key, <<>>) ELSE Erase(params, key)

\* FabberRunData::Unset(key)
UnsetOp(params, key) == Erase(params, key)


-----------------------------------------------------------------------------
(* Option files and the command line *)

\* the pieces std::getline yields while the stream is good: the text
\* between line feeds, the piece after the last line feed included
RECURSIVE GetLines(_)
GetLines(content) ==
    LET nl == Find(content, "\n")
    IN  IF nl = NPos THEN <<content>>
        ELSE <<Substr(content, 0, nl)>> \o GetLines(Substr(content, nl + 1, NPos))

\* the while (is.good()) loop of ParseParamFile over the lines left
RECURSIVE ParseLines(_, _)
ParseLines(params, lines) ==
    IF lines = <<>> THEN Ok(params)
    ELSE LET input == trim(Head(lines))
         IN  IF Len(input) > 0 /\ input[1] # "#"
             THEN LET r == AddKeyEqualsValue(params, input, TRUE)
                  IN  IF r.err # "none" THEN r
                      ELSE ParseLines(r.params, Tail(lines))
             ELSE ParseLines(params, Tail(lines))

\* FabberRunData::ParseParamFile(filename); fls are the files that exist
ParseParamFile(params, fls, filename) ==
    IF filename \notin DOMAIN fls
    THEN Raise(params, "FabberRunDataError: Couldn't read input options file")
    ELSE ParseLines(params, GetLines(fls[filename]))

\* is.get(c) at offset i of content: the character read, or c as it was
\* (and the stream no longer good) at the end of the file
GetChar(content, i, c) ==
    IF i < Len(content)
    THEN [c |-> content[i + 1], i |-> i + 1, good |-> TRUE]
    ELSE [c |-> c, i |-> i, good |-> FALSE]

\* the inner loop of the comment branch: while (is.good() && c != '\n')
RECURSIVE SkipLine(_, _, _, _)
SkipLine(content, i, c, good) ==
    IF good /\ c # "\n"
    THEN LET g == GetChar(content, i, c)
         IN  SkipLine(content, g.i, g.c, g.good)
    ELSE [c |-> c, i |-> i, good |-> good]

\* the loop without its comment branch: a word beginning with # is invalid
RECURSIVE OldStyleLoop_NoComments(_, _, _, _, _)
OldStyleLoop_NoComments(params, content, i, c, param) ==
    LET g == GetChar(content, i, c)
    IN  IF ~IsSpace(g.c)
        THEN IF g.good
             THEN OldStyleLoop_NoComments(params, content, g.i, g.c, Append(param, g.c))
             ELSE Ok(params)
        ELSE IF param = <<>>
        THEN IF g.good
             THEN OldStyleLoop_NoComments(params, content, g.i, g.c, param)
             ELSE Ok(params)
        ELSE IF Substr(param, 0, 2) = <<"-", "-">>
        THEN LET r == AddKeyEqualsValue(params, Substr(param, 2, NPos), FALSE)
             IN  IF r.err # "none" THEN r
                 ELSE IF g.good
                 THEN OldStyleLoop_NoComments(r.params, content, g.i, g.c, <<>>)
                 ELSE r
        ELSE IF Substr(param, 0, 2) = <<"-", "@">>
        THEN Raise(params, "FabberRunDataError: Can only use -@ on the command line")
        ELSE Raise(params, "FabberRunDataError: Invalid data")

\* the while (is.good()) loop of ParseOldStyleParamFile: i characters are
\* read, c is the variable c, param the word collected so far
RECURSIVE OldStyleLoop(_, _, _, _, _)
OldStyleLoop(params, content, i, c, param) ==
    LET g == GetChar(content, i, c)
    IN  IF ~IsSpace(g.c)
        THEN IF g.good
             THEN OldStyleLoop(params, content, g.i, g.c, Append(param, g.c))
             ELSE Ok(params)
        ELSE IF param = <<>>
        THEN IF g.good
             THEN OldStyleLoop(params, content, g.i, g.c, param)
             ELSE Ok(params)
        ELSE IF Substr(param, 0, 2) = <<"-", "-">>
        THEN LET r == AddKeyEqualsValue(params, Substr(param, 2, NPos), FALSE)
             IN  IF r.err # "none" THEN r
                 ELSE IF g.good
                 THEN OldStyleLoop(r.params, content, g.i, g.c, <<>>)
                 ELSE r
        ELSE IF Substr(param, 0, 1) = <<"#">>
        THEN LET k == SkipLine(content, g.i, g.c, g.good)
             IN  IF k.good
                 THEN OldStyleLoop(params, content, k.i, k.c, <<>>)
                 ELSE Ok(params)
        ELSE IF Substr(param, 0, 2) = <<"-", "@">>
        THEN Raise(params, "FabberRunDataError: Can only use -@ on the command line")
        ELSE Raise(params, "FabberRunDataError: Invalid data")

\* FabberRunData::ParseOldStyleParamFile(filename).  c is not initialised:
\* c0 is the value it happens to hold, read only when the file is empty.
ParseOldStyleParamFile(params, fls, filename, c0) ==
    IF filename \notin DOMAIN fls
    THEN Raise(params, "FabberRunDataError: Couldn't read input file")
    ELSE OldStyleLoop(params, fls[filename], 0, c0, <<>>)

\* the for loop of Parse from argv[a] on; args[a + 1] is argv[a] and
\* argv[argc] is the null pointer, from which no std::string can be made
\* (undefined behaviour: ub is the outcome the build has for it)
RECURSIVE ParseLoop(_, _, _, _, _, _)
ParseLoop(params, args, a, fls, c0, ub) ==
    LET argc == Len(args)
        arg == args[a + 1]
    IN  IF a >= argc THEN Ok(params)
        ELSE IF arg = <<"-", "f">>
        THEN IF a + 1 >= argc THEN Raise(params, ub)
             ELSE LET r == ParseParamFile(params, fls, args[a + 2])
                  IN  IF r.err # "none" THEN r
                      ELSE ParseLoop(r.params, args, a + 3, fls, c0, ub)
        ELSE IF Substr(arg, 0, 2) = <<"-", "-">>
        THEN LET r == AddKeyEqualsValue(params, Substr(arg, 2, NPos), FALSE)
             IN  IF r.err # "none" THEN r
                 ELSE ParseLoop(r.params, args, a + 1, fls, c0, ub)
        ELSE IF arg = <<"-", "@">>
        THEN IF a + 1 >= argc THEN Raise(params, ub)
             ELSE LET r == ParseOldStyleParamFile(params, fls, args[a + 2], c0)
                  IN  IF r.err # "none" THEN r
                      ELSE ParseLoop(r.params, args, a + 2, fls, c0, ub)
        ELSE Raise(params, "FabberRunDataError: doesn't begin with --")

\* FabberRunData::Parse(argc, argv)
Parse(params, args, fls, c0, ub) ==
    ParseLoop(Put(params, <<>>, args[1]), args, 1, fls, c0, ub)

-----------------------------------------------------------------------------
(* Option access.  A getter returns [st, val]: st is "ok" or the exception *)
(* class it throws; val is the value returned (a filler when it throws).   *)

StrRes(st, val) == [st |-> st, val |-> val]

\* Read without the check for an empty value
Read_EmptyOk(params, key) ==
    IF ~HasKey(params, key) THEN StrRes("MandatoryOptionMissing", <<>>)
    ELSE StrRes("ok", params[key])

\* FabberRunData::Read(key, msg)
Read(params, key) ==
    IF ~HasKey(params, key) THEN StrRes("MandatoryOptionMissing", <<>>)
    ELSE IF params[key] = <<>> THEN StrRes("InvalidOptionValue", <<>>)
    ELSE StrRes("ok", params[key])

\* FabberRunData::GetString(key), and Read(key) which forwards to it
GetString(params, key) == Read(params, key)

\* FabberRunData::GetStringDefault(key, def)
GetStringDefault(params, key, def) ==
    IF ~HasKey(params, key) THEN def ELSE params[key]

\* FabberRunData::HaveKey(key)
HaveKey(params, key) == HasKey(params, key)

\* FabberRunData::GetBool(key)
GetBool(params, key) ==
    IF ~HasKey(params, key) THEN [st |-> "ok", val |-> FALSE]
    ELSE IF params[key] = <<>> THEN [st |-> "ok", val |-> TRUE]
    ELSE [st |-> "InvalidOptionValue", val |-> FALSE]

\* convertTo<T>(string) is declared outside the files at hand: it reads a
\* T from the string with operator>> (leading white space skipped) and
\* throws invalid_argument when that fails or when characters are left.
Digits == {"0", "1", "2", "3", "4", "5", "6", "7", "8", "9"}

DigitVal(c) ==
    CASE c = "0" -> 0 [] c = "1" -> 1 [] c = "2" -> 2 [] c = "3" -> 3
      [] c = "4" -> 4 [] c = "5" -> 5 [] c = "6" -> 6 [] c = "7" -> 7
      [] c = "8" -> 8 [] c = "9" -> 9

RECURSIVE DigitsVal(_)
DigitsVal(s) ==
    IF s = <<>> THEN 0
    ELSE 10 * DigitsVal(SubSeq(s, 1, Len(s) - 1)) + DigitVal(s[Len(s)])

AllDigits(s) == Len(s) > 0 /\ \A i \in 1..Len(s) : s[i] \in Digits

RECURSIVE SkipWs(_)
SkipWs(s) == IF s # <<>> /\ IsSpace(s[1]) THEN SkipWs(Tail(s)) ELSE s

Pow10(n) == 10 ^ n

convertToInt(str) ==
    LET s == SkipWs(str)
        neg == s # <<>> /\ s[1] = "-"
        body == IF s # <<>> /\ s[1] \in {"-", "+"} THEN Tail(s) ELSE s
    IN  IF AllDigits(body)
        THEN [st |-> "ok",
              val |-> IF neg THEN 0 - DigitsVal(body) ELSE DigitsVal(body)]
        ELSE [st |-> "invalid_argument", val |-> 0]

\* a double is kept as the fraction num / den it was written as
convertToDouble(str) ==
    LET s == SkipWs(str)
        neg == s # <<>> /\ s[1] = "-"
        body == IF s # <<>> /\ s[1] \in {"-", "+"} THEN Tail(s) ELSE s
        dot == Find(body, ".")
        ip == IF dot = NPos THEN body ELSE Substr(body, 0, dot)
        fp == IF dot = NPos THEN <<>> ELSE Substr(body, dot + 1, NPos)
        mag == DigitsVal(ip) * Pow10(Len(fp)) + DigitsVal(fp)
    IN  IF /\ \A i \in 1..Len(ip) : ip[i] \in Digits
           /\ \A i \in 1..Len(fp) : fp[i] \in Digits
           /\ Len(ip) + Len(fp) > 0
        THEN [st |-> "ok",
              val |-> [num |-> IF neg THEN 0 - mag ELSE mag,
                       den |-> Pow10(Len(fp))]]
        ELSE [st |-> "invalid_argument", val |-> [num |-> 0, den |-> 1]]

\* FabberRunData::GetInt(key)
GetInt(params, key) ==
    LET val == GetString(params, key)
    IN  IF val.st # "ok" THEN [st |-> val.st, val |-> 0]
        ELSE LET x == convertToInt(val.val)
             IN  IF x.st = "invalid_argument"
                 THEN [st |-> "InvalidOptionValue", val |-> 0]
                 ELSE x

\* FabberRunData::GetDouble(key)
GetDouble(params, key) ==
    LET val == GetString(params, key)
    IN  IF val.st # "ok" THEN [st |-> val.st, val |-> [num |-> 0, den |-> 1]]
        ELSE LET x == convertToDouble(val.val)
             IN  IF x.st = "invalid_argument"
                 THEN [st |-> "InvalidOptionValue",
                       val |-> [num |-> 0, den |-> 1]]
                 ELSE x

\* FabberRunData::GetIntDefault(key, def)
GetIntDefault(params, key, def) ==
    IF ~HasKey(params, key) THEN [st |-> "ok", val |-> def]
    ELSE GetInt(params, key)

\* FabberRunData::GetDoubleDefault(key, def)
GetDoubleDefault(params, key, def) ==
    IF ~HasKey(params, key) THEN [st |-> "ok", val |-> def]
    ELSE GetDouble(params, key)

-----------------------------------------------------------------------------
(* Values of the variables a specification does not use *)

NoCall == [op |-> "none"]

IdleDir == m_outdir = <<>> /\ fs = <<>> /\ hist = <<>>

IdleParse == argv = <<>> /\ files = EmptyMap /\ given = <<>>

IdleRun == pc = "idle" /\ events = <<>> /\ m_last = -1

\* a matrix is its rows, each a sequence of Ncols() numbers
Mat(ncols, rows) == [ncols |-> ncols, rows |-> rows]

\* NEWMAT::Matrix(), the 0 x 0 matrix
EmptyMat == Mat(0, <<>>)

IdleIo == m_mask = <<>> /\ m_have_mask = FALSE /\ m_have_coords = FALSE

IdleData ==
    /\ m_voxel_data = EmptyMap /\ m_mainDataMultiple = EmptyMat
    /\ m_extent = <<>> /\ m_dims = <<>>
    /\ IdleIo

-----------------------------------------------------------------------------
(* SpecOpts: the option map under Set, SetBool, Unset, AddKeyEqualsValue    *)
(* and the getters.  call records the last operation and what it returned. *)

OptKeys == {<<"k">>, <<"j">>}

OptValues == {<<>>, <<"v">>, <<"7">>, <<"-", "2">>, <<"1", ".", "5">>, <<"7", "x">>}

IntDefaults == {0, 7}

DoubleDefaults == {[num |-> 0, den |-> 1], [num |-> 15, den |-> 10]}

\* every map from a subset of keys to the values
MapsOver(keys, values) ==
    UNION {[d -> values] : d \in SUBSET keys}

Pad(b) == IF b THEN <<" ">> ELSE <<>>

InitOpts ==
    /\ m_params \in MapsOver(OptKeys, OptValues)
    /\ call = NoCall
    /\ IdleDir /\ IdleParse /\ IdleRun /\ IdleData

OptSet ==
    \E key \in OptKeys, value \in OptValues :
        /\ m_params' = SetOp(m_params, key, value)
        /\ call' = [op |-> "Set", key |-> key]
        /\ UNCHANGED <<dirVars, parseVars, runVars, dataVars>>

OptSetBool ==
    \E key \in OptKeys, value \in BOOLEAN :
        /\ m_params' = SetBoolOp(m_params, key, value)
        /\ call' = [op |-> "SetBool", key |-> key]
        /\ UNCHANGED <<dirVars, parseVars, runVars, dataVars>>

OptUnset ==
    \E key \in OptKeys :
        /\ m_params' = UnsetOp(m_params, key)
        /\ call' = [op |-> "Unset", key |-> key]
        /\ UNCHANGED <<dirVars, parseVars, runVars, dataVars>>

\* AddKeyEqualsValue("key=value"), the key and the value padded or not
OptAddKeyValue ==
    \E key \in OptKeys \cup {K_loadmodels}, value \in OptValues,
       lp \in BOOLEAN, rp \in BOOLEAN :
        LET exp == Pad(lp) \o key \o Pad(rp) \o <<"=">> \o Pad(lp) \o value \o Pad(rp)
            r == AddKeyEqualsValue(m_params, exp, FALSE)
        IN  /\ m_params' = r.params
            /\ call' = [op |-> "AddKeyEqualsValue", form |-> "key=value",
                        key |-> key, value |-> value, before |-> m_params,
                        err |-> r.err]
            /\ UNCHANGED <<dirVars, parseVars, runVars, dataVars>>

\* AddKeyEqualsValue("key"), the boolean form
OptAddKey ==
    \E key \in OptKeys :
        LET r == AddKeyEqualsValue(m_params, key, FALSE)
        IN  /\ m_params' = r.params
            /\ call' = [op |-> "AddKeyEqualsValue", form |-> "key",
                        key |-> key, value |-> <<>>, before |-> m_params,
                        err |-> r.err]
            /\ UNCHANGED <<dirVars, parseVars, runVars, dataVars>>

OptGetString ==
    \E key \in OptKeys :
        /\ call' = [op |-> "GetString", key |-> key,
                    res |-> GetString(m_params, key)]
        /\ UNCHANGED <<m_params, dirVars, parseVars, runVars, dataVars>>

OptRead ==
    \E key \in OptKeys :
        /\ call' = [op |-> "Read", key |-> key, res |-> Read(m_params, key)]
        /\ UNCHANGED <<m_params, dirVars, parseVars, runVars, dataVars>>

OptGetBool ==
    \E key \in OptKeys :
        /\ call' = [op |-> "GetBool", key |-> key,
                    res |-> GetBool(m_params, key)]
        /\ UNCHANGED <<m_params, dirVars, parseVars, runVars, dataVars>>

OptGetInt ==
    \E key \in OptKeys :
        /\ call' = [op |-> "GetInt", key |-> key, res |-> GetInt(m_params, key)]
        /\ UNCHANGED <<m_params, dirVars, parseVars, runVars, dataVars>>

OptGetDouble ==
    \E key \in OptKeys :
        /\ call' = [op |-> "GetDouble", key |-> key,
                    res |-> GetDouble(m_params, key)]
        /\ UNCHANGED <<m_params, dirVars, parseVars, runVars, dataVars>>

OptGetIntDefault ==
    \E key \in OptKeys, def \in IntDefaults :
        /\ call' = [op |-> "GetIntDefault", key |-> key, def |-> def,
                    res |-> GetIntDefault(m_params, key, def)]
        /\ UNCHANGED <<m_params, dirVars, parseVars, runVars, dataVars>>

OptGetDoubleDefault ==
    \E key \in OptKeys, def \in DoubleDefaults :
        /\ call' = [op |-> "GetDoubleDefault", key |-> key, def |-> def,
                    res |-> GetDoubleDefault(m_params, key, def)]
        /\ UNCHANGED <<m_params, dirVars, parseVars, runVars, dataVars>>

NextOpts ==
    \/ OptSet \/ OptSetBool \/ OptUnset \/ OptAddKeyValue \/ OptAddKey
    \/ OptGetString \/ OptRead \/ OptGetBool \/ OptGetInt \/ OptGetDouble
    \/ OptGetIntDefault \/ OptGetDoubleDefault

SpecOpts == InitOpts /\ [][NextOpts]_vars

\* C8: AddKeyEqualsValue("key=value") for a key that is already in the
\* option map raises InvalidOptionValue and leaves the option map as it was.
C8_DuplicateKeyRaises ==
    (/\ call.op = "AddKeyEqualsValue"
     /\ call.form = "key=value"
     /\ call.key \in DOMAIN call.before)
        => (call.err = "InvalidOptionValue" /\ m_params = call.before)

C8_Witness ==
    /\ call.op = "AddKeyEqualsValue"
    /\ call.form = "key=value"
    /\ call.key \in DOMAIN call.before
    /\ call.before[call.key] # <<>>
    /\ call.value # call.before[call.key]
    /\ call.err = "InvalidOptionValue"

\* C28: AddKeyEqualsValue, called for an argument in either form whose key
\* is already in the option map, raises an error or leaves the value
\* stored under the key as it was.
C28_StoredValueKept ==
    (call.op = "AddKeyEqualsValue" /\ call.key \in DOMAIN call.before) =>
        \/ call.err # "none"
        \/ /\ call.key \in DOMAIN m_params
           /\ m_params[call.key] = call.before[call.key]

\* the numerals convertTo accepts, stated on the stored text
IsIntText(s) ==
    \/ AllDigits(s)
    \/ Len(s) > 1 /\ s[1] = "-" /\ AllDigits(Tail(s))

IsDoubleText(s) ==
    \/ IsIntText(s)
    \/ \E i \in 1..Len(s) :
          /\ s[i] = "."
          /\ IsIntText(SubSeq(s, 1, i - 1))
          /\ AllDigits(SubSeq(s, i + 1, Len(s)))

\* C9: GetString and Read raise MandatoryOptionMissing for an absent key,
\* InvalidOptionValue for a key with an empty value, and return the stored
\* value otherwise; GetInt and GetDouble also raise InvalidOptionValue when
\* the stored value is not a number; GetIntDefault and GetDoubleDefault
\* return the default exactly when the key is absent and behave as GetInt
\* and GetDouble when it is present.
C9_GetterErrors ==
    (call.op \in {"GetString", "Read", "GetInt", "GetDouble",
                  "GetIntDefault", "GetDoubleDefault"}) =>
      LET key == call.key
          absent == key \notin DOMAIN m_params
          isDefault == call.op \in {"GetIntDefault", "GetDoubleDefault"}
          isInt == call.op \in {"GetInt", "GetIntDefault"}
          isDouble == call.op \in {"GetDouble", "GetDoubleDefault"}
      IN  /\ (absent /\ ~isDefault) => call.res.st = "MandatoryOptionMissing"
          /\ (absent /\ isDefault) =>
                (call.res.st = "ok" /\ call.res.val = call.def)
          /\ (~absent /\ m_params[key] = <<>>) =>
                call.res.st = "InvalidOptionValue"
          /\ (~absent /\ m_params[key] # <<>> /\ ~isInt /\ ~isDouble) =>
                (call.res.st = "ok" /\ call.res.val = m_params[key])
          /\ (~absent /\ m_params[key] # <<>> /\ isInt) =>
                IF IsIntText(m_params[key])
                THEN call.res.st = "ok"
                     /\ call.res.val = convertToInt(m_params[key]).val
                ELSE call.res.st = "InvalidOptionValue"
          /\ (~absent /\ m_params[key] # <<>> /\ isDouble) =>
                IF IsDoubleText(m_params[key])
                THEN call.res.st = "ok"
                     /\ call.res.val = convertToDouble(m_params[key]).val
                ELSE call.res.st = "InvalidOptionValue"

C9_Witness ==
    /\ call.op = "GetIntDefault"
    /\ call.key \in DOMAIN m_params
    /\ m_params[call.key] = <<>>
    /\ call.res.st = "InvalidOptionValue"

-----------------------------------------------------------------------------
(* Output directory creation.  fs maps a path to what is there: "free"     *)
(* (nothing, and mkdir can create it), "dir", "file" (exists, not a        *)
(* directory) or "denied" (mkdir fails with an errno other than EEXIST).   *)

K_output == <<"o", "u", "t", "p", "u", "t">>

K_overwrite == <<"o", "v", "e", "r", "w", "r", "i", "t", "e">>

K_link == <<"l", "i", "n", "k", "-", "t", "o", "-", "l", "a", "t", "e", "s", "t">>

\* the limit of the loop of GetOutputDir
MaxAttempts == 50

RECURSIVE Plus(_)
Plus(n) == IF n = 0 THEN <<>> ELSE <<"+">> \o Plus(n - 1)

\* The one basename the model gives option output.  The paths GetOutputDir
\* can name are Basename followed by + signs, and the file system is the
\* sequence of their states: fs[k + 1] is the state of Basename with k +.
Basename == <<"f">>

PlusCount(path) == Len(path) - Len(Basename)

At(fsys, path) == fsys[PlusCount(path) + 1]

\* mkdir(path): 0 and the directory exists afterwards, or -1 with errno
Mkdir(fsys, path) ==
    IF At(fsys, path) = "free"
    THEN [ret |-> 0, errno |-> "none",
          fs |-> [fsys EXCEPT ![PlusCount(path) + 1] = "dir"]]
    ELSE [ret |-> -1,
          errno |-> IF At(fsys, path) = "denied" THEN "EACCES" ELSE "EEXIST",
          fs |-> fsys]

\* is_dir answering true for whatever exists
is_dir_Exists(fsys, path) == At(fsys, path) # "free"

\* static bool is_dir(string path)
is_dir(fsys, path) == At(fsys, path) = "dir"

\* the loop with its limit tested one attempt late
RECURSIVE MkdirLoop_OneMore(_, _, _, _, _)
MkdirLoop_OneMore(fsys, outdir, count, overwrite, tried) ==
    IF count > MaxAttempts
    THEN [fs |-> fsys, outdir |-> outdir, tried |-> tried,
          err |-> "FabberInternalError"]
    ELSE LET m == Mkdir(fsys, outdir)
             t == Append(tried, outdir)
         IN  IF m.ret = 0 \/ (overwrite /\ m.errno = "EEXIST" /\ is_dir(fsys, outdir))
             THEN [fs |-> m.fs, outdir |-> outdir, tried |-> t, err |-> "none"]
             ELSE IF overwrite
             THEN [fs |-> m.fs, outdir |-> outdir, tried |-> t,
                   err |-> "FabberInternalError"]
             ELSE MkdirLoop_OneMore(m.fs, outdir \o <<"+">>, count + 1, overwrite, t)

\* the loop taking an existing directory as success whatever overwrite is
RECURSIVE MkdirLoop_ReuseExisting(_, _, _, _, _)
MkdirLoop_ReuseExisting(fsys, outdir, count, overwrite, tried) ==
    IF count >= MaxAttempts
    THEN [fs |-> fsys, outdir |-> outdir, tried |-> tried,
          err |-> "FabberInternalError"]
    ELSE LET m == Mkdir(fsys, outdir)
             t == Append(tried, outdir)
         IN  IF m.ret = 0 \/ (m.errno = "EEXIST" /\ is_dir(fsys, outdir))
             THEN [fs |-> m.fs, outdir |-> outdir, tried |-> t, err |-> "none"]
             ELSE IF overwrite
             THEN [fs |-> m.fs, outdir |-> outdir, tried |-> t,
                   err |-> "FabberInternalError"]
             ELSE MkdirLoop_ReuseExisting(m.fs, outdir \o <<"+">>, count + 1,
                                          overwrite, t)

\* the while (true) loop of GetOutputDir, from its state (m_outdir, count);
\* tried lists the paths handed to mkdir
RECURSIVE MkdirLoop(_, _, _, _, _)
MkdirLoop(fsys, outdir, count, overwrite, tried) ==
    IF count >= MaxAttempts
    THEN [fs |-> fsys, outdir |-> outdir, tried |-> tried,
          err |-> "FabberInternalError"]
    ELSE LET m == Mkdir(fsys, outdir)
             t == Append(tried, outdir)
         IN  IF m.ret = 0
             THEN [fs |-> m.fs, outdir |-> outdir, tried |-> t, err |-> "none"]
             ELSE IF overwrite
             THEN IF m.errno = "EEXIST" /\ is_dir(fsys, outdir)
                  THEN [fs |-> m.fs, outdir |-> outdir, tried |-> t,
                        err |-> "none"]
                  ELSE [fs |-> m.fs, outdir |-> outdir, tried |-> t,
                        err |-> "FabberInternalError"]
             ELSE MkdirLoop(m.fs, outdir \o <<"+">>, count + 1, overwrite, t)

\* FabberRunData::GetOutputDir() (the build without _WIN32): the state it
\* leaves (outdir is m_outdir), the exception it throws (err) or the value
\* it returns (ret), and whether the _latest link was made
GetOutputDir(params, outdir, fsys) ==
    IF outdir # <<>>
    THEN [fs |-> fsys, outdir |-> outdir, tried |-> <<>>, err |-> "none",
          ret |-> outdir, linked |-> FALSE]
    ELSE LET basename == GetStringDefault(params, K_output, <<>>)
         IN  IF basename = <<>>
             THEN [fs |-> fsys, outdir |-> <<".">>, tried |-> <<>>,
                   err |-> "none", ret |-> <<".">>, linked |-> FALSE]
             ELSE LET overwrite == GetBool(params, K_overwrite)
                  IN  IF overwrite.st # "ok"
                      THEN [fs |-> fsys, outdir |-> outdir, tried |-> <<>>,
                            err |-> overwrite.st, ret |-> <<>>,
                            linked |-> FALSE]
                      ELSE LET l == MkdirLoop(fsys, basename, 0,
                                              overwrite.val, <<>>)
                               link == GetBool(params, K_link)
                           IN  IF l.err # "none"
                               THEN [fs |-> l.fs, outdir |-> l.outdir,
                                     tried |-> l.tried, err |-> l.err,
                                     ret |-> <<>>, linked |-> FALSE]
                               ELSE IF link.st # "ok"
                               THEN [fs |-> l.fs, outdir |-> l.outdir,
                                     tried |-> l.tried, err |-> link.st,
                                     ret |-> <<>>, linked |-> FALSE]
                               ELSE [fs |-> l.fs, outdir |-> l.outdir,
                                     tried |-> l.tried, err |-> "none",
                                     ret |-> l.outdir, linked |-> link.val]

-----------------------------------------------------------------------------
(* SpecDir: GetOutputDir on a file system with some names taken, under      *)
(* every setting of output, overwrite and link-to-latest.                  *)

FsKinds == {"dir", "file", "denied"}

\* the first n names are taken, alternately as k1 and k2; the rest is free
FsPrefix(n, k1, k2) ==
    [i \in 1..(MaxAttempts + 2) |->
        IF i - 1 >= n THEN "free"
        ELSE IF (i - 1) % 2 = 0 THEN k1 ELSE k2]

PrefixLens == {0, 1, 2, MaxAttempts - 1, MaxAttempts, MaxAttempts + 1}

FsInits == {FsPrefix(n, k1, k2) : n \in PrefixLens, k1 \in FsKinds, k2 \in FsKinds}

\* the values an option of GetOutputDir is given: absent is "no such key"
OutputValues == {<<>>, Basename}

FlagValues == {<<>>, <<"1">>}

DirOptions ==
    {o \in MapsOver({K_output, K_overwrite, K_link}, OutputValues \cup FlagValues) :
        /\ (K_output \in DOMAIN o => o[K_output] \in OutputValues)
        /\ (K_overwrite \in DOMAIN o => o[K_overwrite] \in FlagValues)
        /\ (K_link \in DOMAIN o => o[K_link] \in FlagValues)}

\* the FabberRunData objects constructed after the first one
MaxObjects == 2

InitDir ==
    /\ m_params \in DirOptions
    /\ fs \in FsInits
    /\ m_outdir = <<>>
    /\ hist = <<>>
    /\ call = NoCall
    /\ IdleParse /\ IdleRun /\ IdleData

\* a call of GetOutputDir, by whoever holds the FabberRunData
GetOutputDirCall ==
    LET r == GetOutputDir(m_params, m_outdir, fs)
    IN  /\ m_outdir' = r.outdir
        /\ fs' = r.fs
        /\ call' = [op |-> "GetOutputDir", fresh |-> (m_outdir = <<>>),
                    before_fs |-> fs, tried |-> r.tried, err |-> r.err,
                    ret |-> r.ret, linked |-> r.linked]
        /\ UNCHANGED <<m_params, hist, parseVars, runVars, dataVars>>

\* Set, SetBool or Unset of one of the three options between calls
DirSetOption ==
    \E o \in DirOptions :
        /\ o # m_params
        /\ Cardinality({k \in {K_output, K_overwrite, K_link} :
                            (k \in DOMAIN o) # (k \in DOMAIN m_params)
                            \/ (k \in DOMAIN o /\ o[k] # m_params[k])}) = 1
        /\ m_params' = o
        /\ call' = [op |-> "Set"]
        /\ UNCHANGED <<dirVars, parseVars, runVars, dataVars>>

\* FabberRunData::FabberRunData: a new object with the same options given
DirNewRunData ==
    /\ Len(hist) < MaxObjects
    /\ m_outdir # <<>>
    /\ m_outdir' = <<>>
    /\ hist' = Append(hist, m_outdir)
    /\ call' = [op |-> "FabberRunData"]
    /\ UNCHANGED <<m_params, fs, parseVars, runVars, dataVars>>

NextDir == GetOutputDirCall \/ DirSetOption \/ DirNewRunData

SpecDir == InitDir /\ [][NextDir]_vars

\* what C1 says of one call: the paths handed to mkdir are basename,
\* basename+, ... in order, at most MaxAttempts of them, every one but the
\* last failed, the call returns the first that succeeds, and it raises
\* exactly when all MaxAttempts fail
C1_Behaviour ==
    LET n == Len(call.tried)
    IN  /\ n >= 1 /\ n <= MaxAttempts
        /\ \A i \in 1..n : call.tried[i] = m_params[K_output] \o Plus(i - 1)
        /\ \A i \in 1..(n - 1) : At(call.before_fs, call.tried[i]) # "free"
        /\ IF \E i \in 0..(MaxAttempts - 1) :
                 At(call.before_fs, m_params[K_output] \o Plus(i)) = "free"
           THEN /\ call.err = "none"
                /\ call.ret = call.tried[n]
                /\ At(call.before_fs, call.ret) = "free"
                /\ At(fs, call.ret) = "dir"
           ELSE /\ call.err = "FabberInternalError"
                /\ n = MaxAttempts

C1_Case ==
    /\ call.op = "GetOutputDir"
    /\ call.fresh
    /\ K_output \in DOMAIN m_params
    /\ m_params[K_output] # <<>>
    /\ K_overwrite \notin DOMAIN m_params

\* C1 as stated: with a non-empty output and overwrite not set, the first
\* GetOutputDir call of a FabberRunData tries basename, basename+, ...,
\* returns the first name whose mkdir succeeds after at most 50 attempts
\* and raises when all 50 fail.
C1_Original == C1_Case => C1_Behaviour

\* C1 (amended): the same, provided link-to-latest is absent or given
\* without a value; with a value the call raises InvalidOptionValue after
\* the directory was made.
C1_MkdirSequence ==
    (C1_Case /\ GetBool(m_params, K_link).st = "ok") => C1_Behaviour

C1_Witness ==
    /\ C1_Case
    /\ GetBool(m_params, K_link).st = "ok"
    /\ call.err = "FabberInternalError"
    /\ Len(call.tried) = MaxAttempts

C21_Case ==
    /\ call.op = "GetOutputDir"
    /\ call.fresh
    /\ K_output \in DOMAIN m_params
    /\ m_params[K_output] # <<>>
    /\ K_overwrite \in DOMAIN m_params
    /\ m_params[K_overwrite] = <<>>

\* what C21 says of one call: mkdir is tried on the basename only; a free
\* name is created and returned, an existing directory is returned as it
\* is, and anything else raises
C21_Behaviour ==
    LET basename == m_params[K_output]
        found == At(call.before_fs, basename)
    IN  /\ call.tried = <<basename>>
        /\ m_outdir = basename
        /\ found = "free" =>
              /\ call.err = "none"
              /\ call.ret = basename
              /\ fs = [call.before_fs EXCEPT ![1] = "dir"]
        /\ found = "dir" =>
              /\ call.err = "none"
              /\ call.ret = basename
              /\ fs = call.before_fs
        /\ found \in {"file", "denied"} =>
              /\ call.err = "FabberInternalError"
              /\ fs = call.before_fs

-----------------------------------------------------------------------------
(* SpecCalls: several GetOutputDir calls on one FabberRunData, with Set,   *)
(* SetBool or Unset of the three options in between.  hist lists the       *)
(* outcome of every call so far.                                           *)

MaxCalls == 3

\* a call that does not look at the recorded m_outdir
CallsGetOutputDir_Forgetful ==
    LET r == GetOutputDir(m_params, <<>>, fs)
    IN  /\ Len(hist) < MaxCalls
        /\ m_outdir' = r.outdir
        /\ fs' = r.fs
        /\ hist' = Append(hist, [err |-> r.err, ret |-> r.ret, tried |-> r.tried])
        /\ call' = [op |-> "GetOutputDir", fresh |-> (m_outdir = <<>>),
                    before_fs |-> fs, tried |-> r.tried, err |-> r.err,
                    ret |-> r.ret, linked |-> r.linked]
        /\ UNCHANGED <<m_params, parseVars, runVars, dataVars>>

\* a call of GetOutputDir, its outcome appended to hist
CallsGetOutputDir ==
    LET r == GetOutputDir(m_params, m_outdir, fs)
    IN  /\ Len(hist) < MaxCalls
        /\ m_outdir' = r.outdir
        /\ fs' = r.fs
        /\ hist' = Append(hist, [err |-> r.err, ret |-> r.ret, tried |-> r.tried])
        /\ call' = [op |-> "GetOutputDir", fresh |-> (m_outdir = <<>>),
                    before_fs |-> fs, tried |-> r.tried, err |-> r.err,
                    ret |-> r.ret, linked |-> r.linked]
        /\ UNCHANGED <<m_params, parseVars, runVars, dataVars>>

NextCalls == CallsGetOutputDir \/ DirSetOption

SpecCalls == InitDir /\ [][NextCalls]_vars

\* C25: once a call of GetOutputDir has returned a directory, every later
\* call on the same FabberRunData returns the same directory and hands
\* nothing to mkdir, whatever was done to the options in between.
C25_Idempotent ==
    \A i \in 1..Len(hist) : \A j \in 1..Len(hist) :
        (i < j /\ hist[i].err = "none") =>
            /\ hist[j].err = "none"
            /\ hist[j].ret = hist[i].ret
            /\ hist[j].tried = <<>>

C25_Witness ==
    /\ Len(hist) = 3
    /\ hist[1].err = "none" /\ hist[1].ret = <<"f", "+">>
    /\ hist[2].ret = <<"f", "+">>
    /\ hist[3].ret = <<"f", "+">> /\ hist[3].tried = <<>>
    /\ call.op = "GetOutputDir"
    /\ K_output \notin DOMAIN m_params
    /\ GetBool(m_params, K_overwrite).val

\* C26: a call that raises FabberInternalError leaves no output directory
\* recorded, and no call returns a name other than "." that is not a
\* directory.
C26_NothingRecordedOnError ==
    /\ (call.op = "GetOutputDir" /\ call.err = "FabberInternalError") =>
            m_outdir = <<>>
    /\ \A j \in 1..Len(hist) :
            (hist[j].err = "none" /\ hist[j].ret # <<".">>) =>
                At(fs, hist[j].ret) = "dir"

-----------------------------------------------------------------------------
(* SpecRuns: successive runs of the program with --output=Basename and no  *)
(* --overwrite, on a file system in which only these runs make             *)
(* directories.  Each run is a FabberRunData of its own; hist lists the    *)
(* m_outdir of the runs that ended.                                        *)

MaxRuns == 52

RunsOptions ==
    {o \in DirOptions :
        /\ K_output \in DOMAIN o /\ o[K_output] = Basename
        /\ K_overwrite \notin DOMAIN o}

InitRuns ==
    /\ m_params \in RunsOptions
    /\ fs = FsPrefix(0, "dir", "dir")
    /\ m_outdir = <<>>
    /\ hist = <<>>
    /\ call = NoCall
    /\ IdleParse /\ IdleRun /\ IdleData

\* the run ends and the next one starts, with link-to-latest given or not
RunsNextRun ==
    \E o \in RunsOptions :
        /\ Len(hist) + 1 < MaxRuns
        /\ call.op = "GetOutputDir"
        /\ m_params' = o
        /\ m_outdir' = <<>>
        /\ hist' = Append(hist, m_outdir)
        /\ call' = [op |-> "FabberRunData"]
        /\ UNCHANGED <<fs, parseVars, runVars, dataVars>>

NextRuns == GetOutputDirCall \/ RunsNextRun

SpecRuns == InitRuns /\ [][NextRuns]_vars

\* C2: the n-th run (n <= 50) has the output directory Basename followed by
\* n-1 plus signs, so the first three have f, f+ and f++; a later run gets
\* no directory; and no run returns a directory an earlier run made.
C2_SuccessiveRuns ==
    /\ \A n \in 1..Len(hist) :
          n <= MaxAttempts => hist[n] = Basename \o Plus(n - 1)
    /\ call.op = "GetOutputDir" =>
          LET n == Len(hist) + 1
          IN  /\ n <= MaxAttempts =>
                    /\ m_outdir = Basename \o Plus(n - 1)
                    /\ call.fresh => At(call.before_fs, m_outdir) = "free"
                    /\ At(fs, m_outdir) = "dir"
                    /\ call.err = "none" => call.ret = m_outdir
              /\ (n > MaxAttempts /\ call.fresh) =>
                    call.err = "FabberInternalError"
              /\ call.err = "none" =>
                    \A i \in 1..Len(hist) :
                        At(fs, hist[i]) = "dir" => hist[i] # call.ret

C2_Witness ==
    /\ Len(hist) = 2
    /\ hist[1] = <<"f">>
    /\ hist[2] = <<"f", "+">>
    /\ call.op = "GetOutputDir"
    /\ call.err = "none"
    /\ call.ret = <<"f", "+", "+">>

-----------------------------------------------------------------------------
(* SpecFile: ParseParamFile on the files a user can write.  given lists    *)
(* the lines as written: a blank line, a comment, key=value (with or       *)
(* without a leading --, blanks and a trailing comment) or a bare key.     *)

MaxLines == 2

FileKeys == {<<"k">>, K_loadmodels}

FileValues == {<<>>, <<"v">>, <<"w", "=", "1">>}

Dashes(b) == IF b THEN <<"-", "-">> ELSE <<>>

Lines ==
    [kind : {"blank", "comment"}, dashes : {FALSE}, key : {<<>>},
     value : {<<>>}, pad : BOOLEAN, cmt : {FALSE}]
    \cup [kind : {"kv"}, dashes : BOOLEAN, key : FileKeys,
          value : FileValues, pad : BOOLEAN, cmt : BOOLEAN]
    \cup [kind : {"flag"}, dashes : BOOLEAN, key : {<<"k">>},
          value : {<<>>}, pad : BOOLEAN, cmt : {FALSE}]

\* the text of a line
LineText(l) ==
    CASE l.kind = "blank" -> Pad(l.pad)
      [] l.kind = "comment" -> Pad(l.pad) \o <<"#", "k", "=", "v">>
      [] l.kind = "kv" ->
            Pad(l.pad) \o Dashes(l.dashes) \o l.key \o Pad(l.pad) \o <<"=">>
            \o Pad(l.pad) \o l.value \o Pad(l.pad)
            \o (IF l.cmt THEN <<"#", "c">> ELSE <<>>)
      [] l.kind = "flag" -> Pad(l.pad) \o Dashes(l.dashes) \o l.key \o Pad(l.pad)

\* the lines joined by line feeds, with a last line feed or without
RECURSIVE FileText(_, _)
FileText(ls, lastNl) ==
    IF ls = <<>> THEN <<>>
    ELSE LineText(Head(ls))
         \o (IF Len(ls) > 1 \/ lastNl THEN <<"\n">> ELSE <<>>)
         \o FileText(Tail(ls), lastNl)

SeqsUpTo(S, n) == UNION {[1..k -> S] : k \in 0..n}

F_name == <<"F">>

InitFile ==
    /\ m_params = EmptyMap
    /\ given \in SeqsUpTo(Lines, MaxLines)
    /\ \E lastNl \in BOOLEAN : files = [n \in {F_name} |-> FileText(given, lastNl)]
    /\ argv = <<>>
    /\ call = NoCall
    /\ IdleDir /\ IdleRun /\ IdleData

\* ParseParamFile(F), once
FileParse ==
    /\ call = NoCall
    /\ LET r == ParseParamFile(m_params, files, F_name)
       IN  /\ m_params' = r.params
           /\ call' = [op |-> "ParseParamFile", err |-> r.err]
    /\ UNCHANGED <<dirVars, parseVars, runVars, dataVars>>

\* ParseParamFile of a file that does not exist
FileParseMissing ==
    /\ call = NoCall
    /\ LET r == ParseParamFile(m_params, files, <<"G">>)
       IN  /\ m_params' = r.params
           /\ call' = [op |-> "ParseParamFile", err |-> r.err]
    /\ UNCHANGED <<dirVars, parseVars, runVars, dataVars>>

NextFile == FileParse \/ FileParseMissing

SpecFile == InitFile /\ [][NextFile]_vars

\* the option a key=value or key line sets: the key as written, a leading
\* -- included
LineKey(l) == Dashes(l.dashes) \o l.key

\* what the lines set, one after the other, in the option map
RECURSIVE LinesSet(_, _)
LinesSet(params, ls) ==
    IF ls = <<>> THEN Ok(params)
    ELSE LET l == Head(ls)
         IN  CASE l.kind \in {"blank", "comment"} -> LinesSet(params, Tail(ls))
               [] l.kind = "flag" ->
                     LinesSet(Put(params, LineKey(l), <<>>), Tail(ls))
               [] l.kind = "kv" ->
                     IF LineKey(l) \in DOMAIN params
                     THEN Raise(params, "InvalidOptionValue")
                     ELSE IF LineKey(l) = K_loadmodels
                     THEN LinesSet(params, Tail(ls))
                     ELSE LinesSet(Put(params, LineKey(l), l.value), Tail(ls))

FileParsed == call.op = "ParseParamFile" /\ F_name \in DOMAIN files /\ call.err # "FabberRunDataError: Couldn't read input options file"

-----------------------------------------------------------------------------
(* SpecOld: ParseOldStyleParamFile on the files a user can write.  given   *)
(* lists the words of the file, each with the white space after it (sep);  *)
(* only the last word may run to the end of the file (sep empty).  A word  *)
(* of kind "none" is empty: it stands for more white space.                *)

MaxWords == 3

ArgKeys == {<<"k">>, <<"j">>}

ArgValues == {<<"v">>, <<"w">>}

Seps == {<<" ">>, <<"\n">>}

Words ==
    [kind : {"opt"}, key : ArgKeys, value : ArgValues, sep : Seps \cup {<<>>}]
    \cup [kind : {"flag"}, key : ArgKeys, value : {<<>>}, sep : Seps \cup {<<>>}]
    \cup [kind : {"comment", "at", "junk", "none"}, key : {<<>>},
          value : {<<>>}, sep : Seps \cup {<<>>}]

\* the text of a word, as it stands in a file or on the command line
WordText(w) ==
    CASE w.kind = "opt" -> <<"-", "-">> \o w.key \o <<"=">> \o w.value
      [] w.kind = "flag" -> <<"-", "-">> \o w.key
      [] w.kind = "comment" -> <<"#", "c">>
      [] w.kind = "at" -> <<"-", "@", "G">>
      [] w.kind = "junk" -> <<"x">>
      [] w.kind = "none" -> <<>>

RECURSIVE WordsText(_)
WordsText(ws) ==
    IF ws = <<>> THEN <<>>
    ELSE WordText(Head(ws)) \o Head(ws).sep \o WordsText(Tail(ws))

\* the lists of up to n words, each but the last followed by a separator
WordLists(n) ==
    {ws \in SeqsUpTo(Words, n) :
        \A i \in 1..(Len(ws) - 1) : ws[i].sep # <<>>}

\* values c can hold before the first is.get(c)
UninitChars == {" ", "x"}

InitOld ==
    /\ m_params = EmptyMap
    /\ given \in WordLists(MaxWords)
    /\ files = [n \in {F_name} |-> WordsText(given)]
    /\ argv = <<>>
    /\ call = NoCall
    /\ IdleDir /\ IdleRun /\ IdleData

\* ParseOldStyleParamFile(F), once
OldParse ==
    /\ call = NoCall
    /\ \E c0 \in UninitChars :
        LET r == ParseOldStyleParamFile(m_params, files, F_name, c0)
        IN  /\ m_params' = r.params
            /\ call' = [op |-> "ParseOldStyleParamFile", file |-> F_name,
                        err |-> r.err]
    /\ UNCHANGED <<dirVars, parseVars, runVars, dataVars>>

\* ParseOldStyleParamFile of a file that does not exist
OldParseMissing ==
    /\ call = NoCall
    /\ \E c0 \in UninitChars :
        LET r == ParseOldStyleParamFile(m_params, files, <<"G">>, c0)
        IN  /\ m_params' = r.params
            /\ call' = [op |-> "ParseOldStyleParamFile", file |-> <<"G">>,
                        err |-> r.err]
    /\ UNCHANGED <<dirVars, parseVars, runVars, dataVars>>

NextOld == OldParse \/ OldParseMissing

SpecOld == InitOld /\ [][NextOld]_vars

OldParsed == call.op = "ParseOldStyleParamFile" /\ call.file = F_name

\* the command line made of the option words of given
RECURSIVE OptionArgs(_)
OptionArgs(ws) ==
    IF ws = <<>> THEN <<>>
    ELSE (IF Head(ws).kind = "none" THEN <<>> ELSE <<WordText(Head(ws))>>)
         \o OptionArgs(Tail(ws))

OnlyOptions(ws) == \A i \in 1..Len(ws) : ws[i].kind \in {"opt", "flag", "none"}

\* white space stands between the words of ws
Separated(ws) == \A i \in 1..(Len(ws) - 1) : ws[i].sep # <<>>

\* C5: a -@ file made of --key[=value] words leaves the option map the
\* command line made of the same words leaves (but for the program name
\* Parse stores under the empty key), wherever a word stands in the file.
C5_SameAsCommandLine ==
    (OldParsed /\ OnlyOptions(given) /\ Separated(given)) =>
        LET r == Parse(EmptyMap, <<<<"fabber">>>> \o OptionArgs(given),
                       files, " ", "std::logic_error")
        IN  /\ call.err = r.err
            /\ m_params = Erase(r.params, <<>>)

\* the first word of ws that is not a boolean option or white space
FirstOther(ws) ==
    IF \E i \in 1..Len(ws) : ws[i].kind \notin {"flag", "none"}
    THEN CHOOSE i \in 1..Len(ws) :
            /\ ws[i].kind \notin {"flag", "none"}
            /\ \A j \in 1..(i - 1) : ws[j].kind \in {"flag", "none"}
    ELSE 0

\* C6: a -@ file with a word that begins with -@ (nothing before it that
\* could raise) makes ParseOldStyleParamFile raise "Can only use -@ on the
\* command line".
C6_AtRejected ==
    (OldParsed /\ Separated(given) /\ FirstOther(given) # 0
     /\ given[FirstOther(given)].kind = "at") =>
        call.err = "FabberRunDataError: Can only use -@ on the command line"

RECURSIVE WordsSet(_, _, _)
WordsSet(params, ws, skip) ==
    IF ws = <<>> THEN Ok(params)
    ELSE LET w == Head(ws)
         IN  IF skip THEN WordsSet(params, Tail(ws), w.sep # <<"\n">>)
             ELSE IF w.sep = <<>> THEN Ok(params)
             ELSE CASE w.kind = "none" -> WordsSet(params, Tail(ws), FALSE)
                    [] w.kind = "flag" ->
                          WordsSet(Put(params, w.key, <<>>), Tail(ws), FALSE)
                    [] w.kind = "opt" ->
                          IF w.key \in DOMAIN params
                          THEN Raise(params, "InvalidOptionValue")
                          ELSE WordsSet(Put(params, w.key, w.value), Tail(ws), FALSE)
                    [] w.kind = "comment" ->
                          WordsSet(params, Tail(ws), w.sep # <<"\n">>)
                    [] w.kind = "at" ->
                          Raise(params, "FabberRunDataError: Can only use -@ on the command line")
                    [] w.kind = "junk" ->
                          Raise(params, "FabberRunDataError: Invalid data")

-----------------------------------------------------------------------------
(* SpecParse: Parse on the command lines a user can write.  given[i] says  *)
(* what argv[i] is: an option --key=value, a boolean option --key, -f, -@  *)
(* or a bare word (a file name).                                           *)

MaxArgs == 3

Args ==
    [kind : {"opt"}, key : ArgKeys, value : ArgValues]
    \cup [kind : {"flag"}, key : ArgKeys, value : {<<>>}]
    \cup [kind : {"-f", "-@"}, key : {<<>>}, value : {<<>>}]
    \cup [kind : {"name"}, key : {<<>>}, value : {<<"F">>, <<"G">>, <<"H">>}]

ArgText(g) ==
    CASE g.kind = "opt" -> <<"-", "-">> \o g.key \o <<"=">> \o g.value
      [] g.kind = "flag" -> <<"-", "-">> \o g.key
      [] g.kind = "-f" -> <<"-", "f">>
      [] g.kind = "-@" -> <<"-", "@">>
      [] g.kind = "name" -> g.value

\* the option files at hand: F is written for -f, G for -@, and there is
\* no file H; their keys are not those of the command line
FContents == {<<>>, <<"f", "=", "v", "\n">>, <<"#", "c", "\n", "f", "=", "v">>}

GContents == {<<"-", "-", "g", "=", "w", "\n">>, <<"-", "-", "g", "=", "w">>}

\* what the build does with std::string(argv[argc]), a null pointer
NullStringOutcomes == {"std::logic_error", "SIGSEGV"}

InitParse ==
    /\ m_params = EmptyMap
    /\ given \in SeqsUpTo(Args, MaxArgs)
    /\ argv = <<<<"f", "a", "b", "b", "e", "r">>>> \o [i \in 1..Len(given) |-> ArgText(given[i])]
    /\ \E fc \in FContents, gc \in GContents :
          files = [n \in {<<"F">>, <<"G">>} |-> IF n = <<"F">> THEN fc ELSE gc]
    /\ call = NoCall
    /\ IdleDir /\ IdleRun /\ IdleData

\* Parse(argc, argv), once
ParseCall ==
    /\ call = NoCall
    /\ \E c0 \in UninitChars, ub \in NullStringOutcomes :
        LET r == Parse(m_params, argv, files, c0, ub)
        IN  /\ m_params' = r.params
            /\ call' = [op |-> "Parse", err |-> r.err]
    /\ UNCHANGED <<dirVars, parseVars, runVars, dataVars>>

\* a getter called after Parse
ParseThenGet ==
    /\ call.op \in {"Parse", "GetString", "GetBool"}
    /\ \E key \in ArgKeys :
        \/ call' = [op |-> "GetString", key |-> key, err |-> call.err,
                    res |-> GetString(m_params, key)]
        \/ call' = [op |-> "GetBool", key |-> key, err |-> call.err,
                    res |-> GetBool(m_params, key)]
    /\ UNCHANGED <<m_params, dirVars, parseVars, runVars, dataVars>>

NextParse == ParseCall \/ ParseThenGet

SpecParse == InitParse /\ [][NextParse]_vars

\* argv[i] is written as an option, not as the file name of -f or -@
IsOptionArg(i) ==
    /\ given[i].kind \in {"opt", "flag"}
    /\ (i > 1 => given[i - 1].kind \notin {"-f", "-@"})

\* no key is given twice on the command line
KeysOnce ==
    \A i, j \in 1..Len(given) :
        (i # j /\ IsOptionArg(i) /\ IsOptionArg(j)) => given[i].key # given[j].key

KeyGiven(key) == \E i \in 1..Len(given) : IsOptionArg(i) /\ given[i].key = key

\* C3: after Parse has returned, every --key=value of the command line
\* (each key given once) reads GetString(key) = value, every --key reads
\* GetBool(key) = true, GetBool is false for a key never given and raises
\* InvalidOptionValue for a key given a non-empty value.
C3_OptionsReadable ==
    (call.op \in {"Parse", "GetString", "GetBool"} /\ call.err = "none"
     /\ KeysOnce) =>
        /\ \A i \in 1..Len(given) :
              /\ (IsOptionArg(i) /\ given[i].kind = "opt") =>
                    GetString(m_params, given[i].key) = StrRes("ok", given[i].value)
              /\ (IsOptionArg(i) /\ given[i].kind = "flag") =>
                    GetBool(m_params, given[i].key) = [st |-> "ok", val |-> TRUE]
        /\ \A key \in ArgKeys :
              /\ ~KeyGiven(key) =>
                    GetBool(m_params, key) = [st |-> "ok", val |-> FALSE]
              /\ (\E i \in 1..Len(given) :
                      /\ IsOptionArg(i) /\ given[i].kind = "opt"
                      /\ given[i].key = key /\ given[i].value # <<>>) =>
                    GetBool(m_params, key).st = "InvalidOptionValue"

\* C27: when Parse has returned, the key of every --key=value and --key
\* argument of the command line is in the option map, wherever the
\* argument stands: first, after another option, or after the file name
\* of a -f or -@ pair.
C27_EveryArgumentParsed ==
    (call.op = "Parse" /\ call.err = "none") =>
        \A i \in 1..Len(given) :
            IsOptionArg(i) => HasKey(m_params, given[i].key)

-----------------------------------------------------------------------------
(* SpecRun: FabberRunData::Run, statement by statement.  pc is the place   *)
(* Run has got to, events what it has done that can be seen from outside, *)
(* call.err the exception that left it.                                    *)

K_model == <<"m", "o", "d", "e", "l">>

K_method == <<"m", "e", "t", "h", "o", "d">>

K_degree == <<"d", "e", "g", "r", "e", "e">>

K_dump == <<"d", "u", "m", "p", "-", "p", "a", "r", "a", "m", "-", "n", "a", "m", "e", "s">>

\* the forward models and inference methods the factories know
KnownModels == {<<"p", "o", "l", "y">>}

KnownMethods == {<<"v", "b">>, <<"n", "l", "l", "s">>}

\* FwdModel::NewFromName(name)
FwdModel_NewFromName(name) ==
    IF name \in KnownModels THEN "none" ELSE "InvalidOptionValue"

\* InferenceTechnique::NewFromName(name)
InferenceTechnique_NewFromName(name) ==
    IF name \in KnownMethods THEN "none" ELSE "InvalidOptionValue"

\* Initialize with a degree of its own when the option is not given
PolynomialFwdModel_Initialize_DefaultDegree(params) ==
    LET g == GetString(params, K_degree)
    IN  IF g.st # "ok" THEN [err |-> "none", m_degree |-> 1]
        ELSE LET c == convertToInt(g.val)
             IN  [err |-> IF c.st = "ok" THEN "none" ELSE c.st, m_degree |-> c.val]

\* PolynomialFwdModel::Initialize(args)
PolynomialFwdModel_Initialize(params) ==
    LET g == GetString(params, K_degree)
    IN  IF g.st # "ok" THEN [err |-> g.st, m_degree |-> 0]
        ELSE LET c == convertToInt(g.val)
             IN  [err |-> IF c.st = "ok" THEN "none" ELSE c.st, m_degree |-> c.val]

\* PolynomialFwdModel::NumParams()
NumParams(m_degree) == m_degree + 1

\* what the method's Initialize and DoCalculations can end with
InitializeOutcomes == {"none", "MandatoryOptionMissing", "InvalidOptionValue"}

DoCalculationsOutcomes == {"none", "FabberInternalError"}

RunOptionValues(key) ==
    CASE key = K_model -> {<<>>, <<"p", "o", "l", "y">>, <<"z">>}
      [] key = K_method -> {<<>>, <<"v", "b">>, <<"n", "l", "l", "s">>, <<"z">>}
      [] key = K_degree -> {<<>>, <<"2">>, <<"x">>, <<"-", "1">>}
      [] key = K_dump -> {<<>>, <<"v">>}

RunKeys == {K_model, K_method, K_degree, K_dump}

RunOptions ==
    UNION {{f \in [ks -> UNION {RunOptionValues(k) : k \in RunKeys}] :
                \A k \in ks : f[k] \in RunOptionValues(k)} : ks \in SUBSET RunKeys}

InitRun ==
    /\ m_params \in RunOptions
    /\ pc = "start"
    /\ events = <<>>
    /\ m_last = -1
    /\ call = [op |-> "Run", err |-> "none", m_degree |-> 0]
    /\ IdleDir /\ IdleParse /\ IdleData

\* Run leaves with exception e
RunRaise(e) ==
    /\ pc' = "raised"
    /\ call' = [call EXCEPT !.err = e]
    /\ UNCHANGED events

\* fwd_model(FwdModel::NewFromName(GetString("model")))
RunNewModel ==
    /\ pc = "start"
    /\ LET g == GetString(m_params, K_model)
       IN  IF g.st # "ok" THEN RunRaise(g.st)
           ELSE IF FwdModel_NewFromName(g.val) # "none"
           THEN RunRaise(FwdModel_NewFromName(g.val))
           ELSE pc' = "fwd_model" /\ UNCHANGED <<call, events, dataVars>>
    /\ UNCHANGED <<m_params, m_last, dirVars, parseVars, dataVars>>

\* fwd_model->SetLogger(m_log); fwd_model->Initialize(*this)
RunModelInitialize ==
    /\ pc = "fwd_model"
    /\ LET r == PolynomialFwdModel_Initialize(m_params)
       IN  IF r.err # "none" THEN RunRaise(r.err)
           ELSE /\ pc' = "initialized"
                /\ call' = [call EXCEPT !.m_degree = r.m_degree]
                /\ UNCHANGED events
    /\ UNCHANGED <<m_params, m_last, dirVars, parseVars, dataVars>>

\* assert(fwd_model->NumParams() > 0): the process is aborted, or, in a
\* build without assertions, nothing is looked at
RunAssertNumParams ==
    /\ pc = "initialized"
    /\ \/ NumParams(call.m_degree) > 0 /\ pc' = "asserted"
       \/ ~(NumParams(call.m_degree) > 0) /\ pc' \in {"aborted", "asserted"}
    /\ UNCHANGED <<m_params, call, events, m_last, dirVars, parseVars, dataVars>>

\* if (GetBool("dump-param-names")) paramnames.txt is written
RunDumpParamNames ==
    /\ pc = "asserted"
    /\ LET b == GetBool(m_params, K_dump)
       IN  IF b.st # "ok" THEN RunRaise(b.st)
           ELSE /\ pc' = "dumped"
                /\ events' = IF b.val THEN Append(events, "paramnames.txt") ELSE events
                /\ UNCHANGED call
    /\ UNCHANGED <<m_params, m_last, dirVars, parseVars, dataVars>>

\* infer(InferenceTechnique::NewFromName(GetString("method")))
RunNewMethod ==
    /\ pc = "dumped"
    /\ LET g == GetString(m_params, K_method)
       IN  IF g.st # "ok" THEN RunRaise(g.st)
           ELSE IF InferenceTechnique_NewFromName(g.val) # "none"
           THEN RunRaise(InferenceTechnique_NewFromName(g.val))
           ELSE pc' = "infer" /\ UNCHANGED <<call, events, dataVars>>
    /\ UNCHANGED <<m_params, m_last, dirVars, parseVars, dataVars>>

\* infer->Initialize(fwd_model.get(), *this)
RunMethodInitialize ==
    /\ pc = "infer"
    /\ \E e \in InitializeOutcomes :
          IF e # "none" THEN RunRaise(e)
          ELSE pc' = "infer_initialized" /\ UNCHANGED <<call, events, dataVars>>
    /\ UNCHANGED <<m_params, m_last, dirVars, parseVars, dataVars>>

\* nvoxels = GetVoxelCoords().Ncols(); Progress(0, nvoxels)
RunGetVoxelCoords ==
    /\ pc = "infer_initialized"
    /\ \E haveCoords \in BOOLEAN :
          IF ~haveCoords THEN RunRaise("DataNotFound")
          ELSE /\ pc' = "nvoxels"
               /\ events' = Append(events, "Progress")
               /\ UNCHANGED call
    /\ UNCHANGED <<m_params, m_last, dirVars, parseVars, dataVars>>

\* DoCalculations with its exception swallowed
RunDoCalculations_Swallowed ==
    /\ pc = "nvoxels"
    /\ \E e \in DoCalculationsOutcomes :
          /\ pc' = "calculated"
          /\ call' = [call EXCEPT !.err = e]
          /\ events' = IF e # "none" THEN Append(events, "DoCalculations")
                       ELSE events \o <<"DoCalculations", "Progress">>
    /\ UNCHANGED <<m_params, m_last, dirVars, parseVars, dataVars>>

\* infer->DoCalculations(*this); Progress(nvoxels, nvoxels)
RunDoCalculations ==
    /\ pc = "nvoxels"
    /\ \E e \in DoCalculationsOutcomes :
          IF e # "none"
          THEN /\ pc' = "raised"
               /\ call' = [call EXCEPT !.err = e]
               /\ events' = Append(events, "DoCalculations")
          ELSE /\ pc' = "calculated"
               /\ events' = events \o <<"DoCalculations", "Progress">>
               /\ UNCHANGED call
    /\ UNCHANGED <<m_params, m_last, dirVars, parseVars, dataVars>>

\* infer->SaveResults(*this), and the end of Run
RunSaveResults ==
    /\ pc = "calculated"
    /\ pc' = "done"
    /\ events' = Append(events, "SaveResults")
    /\ UNCHANGED <<m_params, call, m_last, dirVars, parseVars, dataVars>>

NextRun ==
    \/ RunNewModel
    \/ RunModelInitialize
    \/ RunAssertNumParams
    \/ RunDumpParamNames
    \/ RunNewMethod
    \/ RunMethodInitialize
    \/ RunGetVoxelCoords
    \/ RunDoCalculations
    \/ RunSaveResults

SpecRun == InitRun /\ [][NextRun]_vars

Happened(e) == \E i \in 1..Len(events) : events[i] = e

Unusable(key, known) ==
    \/ ~HasKey(m_params, key)
    \/ m_params[key] = <<>>
    \/ m_params[key] \notin known

\* the option errors the claim is about
BadRunOptions ==
    \/ Unusable(K_model, KnownModels)
    \/ Unusable(K_method, KnownMethods)
    \/ ~HasKey(m_params, K_degree)

\* C10: with model or method missing, empty or unknown, or the model's
\* degree missing, Run never gets to DoCalculations or SaveResults and
\* does not return; where it has raised, DoCalculations has not been
\* called before.
C10_NoWorkOnOptionError ==
    BadRunOptions =>
        /\ ~Happened("DoCalculations")
        /\ ~Happened("SaveResults")
        /\ pc \notin {"nvoxels", "calculated", "done"}
        /\ pc = "raised" =>
              call.err \in {"MandatoryOptionMissing", "InvalidOptionValue", "invalid_argument"}

\* Run has raised on an unknown method, after the model was made
C10_Witness ==
    /\ pc = "raised"
    /\ call.err = "InvalidOptionValue"
    /\ HasKey(m_params, K_model) /\ m_params[K_model] \in KnownModels
    /\ HasKey(m_params, K_method) /\ m_params[K_method] = <<"z">>
    /\ HasKey(m_params, K_dump) /\ Happened("paramnames.txt")

\* the position of Run among its steps; -1 where Run has been left by an
\* exception or the process was aborted
StepRank(p) ==
    CASE p = "start" -> 0
      [] p = "fwd_model" -> 1
      [] p = "initialized" -> 2
      [] p = "asserted" -> 3
      [] p = "dumped" -> 4
      [] p = "infer" -> 5
      [] p = "infer_initialized" -> 6
      [] p = "nvoxels" -> 7
      [] p = "calculated" -> 8
      [] p = "done" -> 9
      [] OTHER -> -1

\* the calls of Progress, DoCalculations and SaveResults made so far
RunSteps == SelectSeq(events, LAMBDA e : e # "paramnames.txt")

AllRunSteps == <<"Progress", "DoCalculations", "Progress", "SaveResults">>

\* the calls made are the first ones of AllRunSteps, as many as the
\* position of Run says
StepsInOrder ==
    /\ Len(RunSteps) <= Len(AllRunSteps)
    /\ RunSteps = SubSeq(AllRunSteps, 1, Len(RunSteps))
    /\ (StepRank(pc) >= 0 /\ StepRank(pc) < 7) => RunSteps = <<>>
    /\ pc = "nvoxels" => RunSteps = <<"Progress">>
    /\ pc = "calculated" => RunSteps = SubSeq(AllRunSteps, 1, 3)
    /\ pc = "done" => RunSteps = AllRunSteps
    /\ Happened("SaveResults") => (pc = "done" /\ call.err = "none")
    /\ pc = "raised" => call.err # "none"

\* Run moves from a step to the next one or leaves
StepForward ==
    pc' # pc =>
        /\ StepRank(pc) >= 0
        /\ StepRank(pc') = StepRank(pc) + 1 \/ StepRank(pc') = -1

\* C22: Run creates and initialises the model, creates and initialises the
\* method, calls Progress(0, nvoxels), DoCalculations, Progress(nvoxels,
\* nvoxels) and SaveResults in this order and each at most once;
\* SaveResults is called only after DoCalculations returned without an
\* exception, and a Run that returns has made every one of these calls.
C22_StepOrder == []StepsInOrder /\ [][StepForward]_vars

C22_Witness ==
    /\ pc = "done"
    /\ call.err = "none"
    /\ events = <<"paramnames.txt">> \o AllRunSteps

-----------------------------------------------------------------------------
(* Voxel data: the store m_voxel_data and the main data made of several    *)
(* data sets.                                                              *)

Nrows(mat) == Len(mat.rows)

Ncols(mat) == mat.ncols

DecimalDigits == <<"0", "1", "2", "3", "4", "5", "6", "7", "8", "9">>

\* stringify(n), n >= 0
RECURSIVE stringify(_)
stringify(n) ==
    IF n < 10 THEN <<DecimalDigits[n + 1]>>
    ELSE stringify(n \div 10) \o <<DecimalDigits[(n % 10) + 1]>>

K_data == <<"d", "a", "t", "a">>

K_coords == <<"c", "o", "o", "r", "d", "s">>

K_data_order == <<"d", "a", "t", "a", "-", "o", "r", "d", "e", "r">>

V_interleave == <<"i", "n", "t", "e", "r", "l", "e", "a", "v", "e">>

V_concatenate == <<"c", "o", "n", "c", "a", "t", "e", "n", "a", "t", "e">>

V_singlefile == <<"s", "i", "n", "g", "l", "e", "f", "i", "l", "e">>

\* what a getter of voxel data ends with
MatRes(err, key, mat) == [err |-> err, key |-> key, mat |-> mat]

\* FabberRunData::LoadVoxelData(key)
LoadVoxelData(vd, key) ==
    IF ~HasKey(vd, key) THEN MatRes("DataNotFound", key, EmptyMat)
    ELSE MatRes("none", key, vd[key])

\* the while loop of GetVoxelData.  The loop is deterministic in (key_cur),
\* so once it has run more often than there are options it runs for ever.
RECURSIVE GetVoxelDataLoop(_, _, _, _, _)
GetVoxelDataLoop(params, key, key_cur, data_key, steps) ==
    IF key_cur = <<>> THEN [hangs |-> FALSE, data_key |-> data_key]
    ELSE IF steps > Cardinality(DOMAIN params) + 1
    THEN [hangs |-> TRUE, data_key |-> data_key]
    ELSE LET next == GetStringDefault(params, key_cur, <<>>)
         IN  IF next = key THEN [hangs |-> FALSE, data_key |-> key_cur]
             ELSE GetVoxelDataLoop(params, key, next, key_cur, steps + 1)

\* FabberRunData::GetVoxelData(key)
GetVoxelData(params, vd, key) ==
    LET l == GetVoxelDataLoop(params, key, key, <<>>, 0)
    IN  IF l.hangs THEN MatRes("hangs", l.data_key, EmptyMat)
        ELSE LoadVoxelData(vd, l.data_key)

\* the loop of GetMainVoxelDataMultiple that gathers data1, data2, ...
RECURSIVE CollectDataSets(_, _, _, _)
CollectDataSets(params, vd, n, dataSets) ==
    LET r == GetVoxelData(params, vd, K_data \o stringify(n))
    IN  IF r.err = "hangs" THEN [hangs |-> TRUE, dataSets |-> dataSets]
        ELSE IF r.err = "DataNotFound" THEN [hangs |-> FALSE, dataSets |-> dataSets]
        ELSE CollectDataSets(params, vd, n + 1, Append(dataSets, r.mat))

\* a row of a matrix after ReSize that nothing was assigned to; 0 stands
\* for an entry nobody has given a value
FreshRow(ncols) == [c \in 1..ncols |-> 0]

\* the rows in concatenation order
InterleaveRow_Blocks(nSets, nTimes, i, j) == nTimes * j + i + 1

\* every data set put into the first row of its block
InterleaveRow_FirstOfBlock(nSets, nTimes, i, j) == nSets * i + 1

\* the row of the result that row i + 1 of data set j + 1 goes to
InterleaveRow(nSets, nTimes, i, j) == nSets * i + j + 1

\* the place (i, j) at which the interleave loops throw, or <<>>
InterleaveStop(dataSets, nTimes) ==
    IF nTimes > 0 /\ \E j \in 1..Len(dataSets) : Nrows(dataSets[j]) # nTimes
    THEN <<0, (CHOOSE j \in 1..Len(dataSets) :
                 /\ Nrows(dataSets[j]) # nTimes
                 /\ \A k \in 1..(j - 1) : Nrows(dataSets[k]) = nTimes) - 1>>
    ELSE <<>>

\* m_mainDataMultiple after the interleave loops, run up to stop
Interleave(dataSets, stop) ==
    LET nSets == Len(dataSets)
        nTimes == Nrows(dataSets[1])
        done(i, j) == stop = <<>> \/ i < stop[1] \/ (i = stop[1] /\ j < stop[2])
        src(r) == {ij \in (0..(nTimes - 1)) \X (0..(nSets - 1)) :
                      /\ InterleaveRow(nSets, nTimes, ij[1], ij[2]) = r
                      /\ done(ij[1], ij[2])}
        last(r) == CHOOSE ij \in src(r) :
                      \A o \in src(r) : o[1] < ij[1] \/ (o[1] = ij[1] /\ o[2] <= ij[2])
    IN  Mat(Ncols(dataSets[1]),
            [r \in 1..(nTimes * nSets) |->
                IF src(r) = {} THEN FreshRow(Ncols(dataSets[1]))
                ELSE dataSets[last(r)[2] + 1].rows[last(r)[1] + 1]])

\* the rows of b put above those of a
ConcatRows_Above(a, b) == Mat(Ncols(a), b.rows \o a.rows)

\* a &= b, the rows of b put under those of a
ConcatRows(a, b) == Mat(Ncols(a), a.rows \o b.rows)

RECURSIVE Concatenate(_)
Concatenate(dataSets) ==
    IF Len(dataSets) = 1 THEN dataSets[1]
    ELSE ConcatRows(Concatenate(SubSeq(dataSets, 1, Len(dataSets) - 1)),
                    dataSets[Len(dataSets)])

\* GetMainVoxelDataMultiple ends with err or returns main, which is also
\* what it leaves in m_mainDataMultiple
MainRes(err, main) == [err |-> err, main |-> main]

\* FabberRunData::GetMainVoxelDataMultiple()
GetMainVoxelDataMultiple(params, vd, main) ==
    LET c == CollectDataSets(params, vd, 1, <<>>)
        dataSets == c.dataSets
        order == GetStringDefault(params, K_data_order, V_interleave)
        nSets == Len(dataSets)
    IN  IF c.hangs THEN MainRes("hangs", main)
        ELSE IF nSets < 1 THEN MainRes("DataNotFound", main)
        ELSE IF order = V_singlefile /\ nSets > 1 THEN MainRes("InvalidOptionValue", main)
        ELSE IF order = V_interleave
        THEN LET stop == InterleaveStop(dataSets, Nrows(dataSets[1]))
             IN  MainRes(IF stop = <<>> THEN "none" ELSE "InvalidOptionValue",
                         Interleave(dataSets, stop))
        ELSE IF order = V_concatenate THEN MainRes("none", Concatenate(dataSets))
        ELSE IF order = V_singlefile THEN MainRes("none", dataSets[1])
        ELSE MainRes("InvalidOptionValue", main)

\* the combination of data1, data2, ... taken before `data` is looked at
GetMainVoxelData_MultipleFirst(params, vd, main) ==
    LET r == GetMainVoxelDataMultiple(params, vd, main)
        e == GetVoxelData(params, vd, K_data)
    IN  IF r.err = "none"
        THEN [err |-> "none", key |-> K_data, main |-> r.main, ret |-> r.main]
        ELSE [err |-> e.err, key |-> e.key, main |-> r.main, ret |-> e.mat]

\* FabberRunData::GetMainVoxelData()
GetMainVoxelData(params, vd, main) ==
    LET e == GetVoxelData(params, vd, K_data)
    IN  IF e.err = "hangs" THEN [err |-> "hangs", key |-> e.key, ret |-> EmptyMat, main |-> main]
        ELSE IF e.err = "none" THEN [err |-> "none", key |-> e.key, ret |-> e.mat, main |-> main]
        ELSE LET e2 == GetVoxelData(params, vd, K_data \o stringify(1))
             IN  IF e2.err = "hangs"
                 THEN [err |-> "hangs", key |-> e2.key, ret |-> EmptyMat, main |-> main]
                 ELSE IF e2.err = "DataNotFound"
                 THEN [err |-> "DataNotFound", key |-> e.key, ret |-> EmptyMat, main |-> main]
                 ELSE LET r == GetMainVoxelDataMultiple(params, vd, main)
                      IN  [err |-> r.err, key |-> K_data, main |-> r.main,
                           ret |-> IF r.err = "none" THEN r.main ELSE EmptyMat]

-----------------------------------------------------------------------------
(* SpecData: GetMainVoxelData and GetMainVoxelDataMultiple on the data a   *)
(* user can supply.  given says what was supplied: the matrix for `data`,  *)
(* those for data1, data2, ... (<<>> where there is none), the value of    *)
(* data-order, and whether a matrix sits in the store under the option's   *)
(* name or under a file name the option holds.                             *)

MaxSets == 2

MaxTimes == 2

VoxelValues == {1, 2}

\* matrices of one voxel (column) and up to MaxTimes timepoints (rows): the
\* value at timepoint t is the first value plus 10 * (t - 1)
DataMats ==
    {Mat(1, [t \in 1..len |-> <<v + 10 * (t - 1)>>]) : v \in VoxelValues, len \in 0..MaxTimes}

MainMats == {Mat(1, <<<<1>>>>), Mat(1, <<<<2>>, <<1>>>>)}

OrderValues == {V_interleave, V_concatenate, V_singlefile, <<"z">>, <<>>}

Supplied ==
    [main : {<<>>} \cup {<<mat>> : mat \in MainMats},
     sets : [1..MaxSets -> {<<>>} \cup {<<mat>> : mat \in DataMats}],
     order : {<<>>} \cup {<<o>> : o \in OrderValues},
     via : BOOLEAN]

\* the name of data set n (0 for `data`) as an option, and as a file
SetKey(n) == IF n = 0 THEN K_data ELSE K_data \o stringify(n)

SetFile(n) == <<"f">> \o stringify(n)

\* the store and the options that hold what g says
StoreOf(g) ==
    LET ns == {n \in 0..MaxSets : IF n = 0 THEN g.main # <<>> ELSE g.sets[n] # <<>>}
        mat(n) == IF n = 0 THEN g.main[1] ELSE g.sets[n][1]
        keys == {IF g.via THEN SetFile(n) ELSE SetKey(n) : n \in ns}
    IN  [k \in keys |-> mat(CHOOSE n \in ns : k = IF g.via THEN SetFile(n) ELSE SetKey(n))]

OptionsOf(g) ==
    LET ns == {n \in 0..MaxSets : IF n = 0 THEN g.main # <<>> ELSE g.sets[n] # <<>>}
        keys == (IF g.via THEN {SetKey(n) : n \in ns} ELSE {})
                \cup (IF g.order # <<>> THEN {K_data_order} ELSE {})
    IN  [k \in keys |->
            IF k = K_data_order THEN g.order[1]
            ELSE SetFile(CHOOSE n \in ns : k = SetKey(n))]

InitData ==
    /\ given \in Supplied
    /\ m_params = OptionsOf(given)
    /\ m_voxel_data = StoreOf(given)
    /\ m_mainDataMultiple = EmptyMat
    /\ m_extent = <<>> /\ m_dims = <<>>
    /\ IdleIo
    /\ call = NoCall
    /\ argv = <<>> /\ files = EmptyMap
    /\ IdleDir /\ IdleRun

\* GetMainVoxelData()
DataGetMainVoxelData ==
    /\ LET r == GetMainVoxelData(m_params, m_voxel_data, m_mainDataMultiple)
       IN  /\ call' = [op |-> "GetMainVoxelData", err |-> r.err, key |-> r.key, ret |-> r.ret]
           /\ m_mainDataMultiple' = r.main
    /\ UNCHANGED <<m_params, m_voxel_data, m_extent, m_dims, dirVars, parseVars, runVars, ioVars>>

\* GetMainVoxelDataMultiple()
DataGetMainVoxelDataMultiple ==
    /\ LET r == GetMainVoxelDataMultiple(m_params, m_voxel_data, m_mainDataMultiple)
       IN  /\ call' = [op |-> "GetMainVoxelDataMultiple", err |-> r.err, key |-> K_data,
                       ret |-> IF r.err = "none" THEN r.main ELSE EmptyMat]
           /\ m_mainDataMultiple' = r.main
    /\ UNCHANGED <<m_params, m_voxel_data, m_extent, m_dims, dirVars, parseVars, runVars, ioVars>>

NextData == DataGetMainVoxelData \/ DataGetMainVoxelDataMultiple

SpecData == InitData /\ [][NextData]_vars

\* the data sets data1..dataN that are there without a gap
RECURSIVE LeadingSets(_, _)
LeadingSets(g, n) ==
    IF n > MaxSets \/ g.sets[n] = <<>> THEN <<>>
    ELSE <<g.sets[n][1]>> \o LeadingSets(g, n + 1)

OrderIs(g, o) == g.order = <<o>> \/ (o = V_interleave /\ g.order = <<>>)

\* C11: with data-order interleave (or none given) and N data sets of T
\* timepoints each, GetMainVoxelDataMultiple returns N*T rows, and row
\* N*i + j + 1 is row i + 1 of data set j + 1.
C11_Interleave ==
    LET sets == LeadingSets(given, 1)
        N == Len(sets)
    IN  (call.op = "GetMainVoxelDataMultiple" /\ OrderIs(given, V_interleave)
         /\ N >= 1 /\ \A j \in 1..N : Len(sets[j].rows) = Len(sets[1].rows)) =>
            LET T == Len(sets[1].rows)
            IN  /\ call.err = "none"
                /\ Len(call.ret.rows) = N * T
                /\ call.ret.ncols = sets[1].ncols
                /\ \A i \in 0..(T - 1), j \in 0..(N - 1) :
                      call.ret.rows[N * i + j + 1] = sets[j + 1].rows[i + 1]

\* two data sets of two timepoints that differ have been interleaved
C11_Witness ==
    /\ call.op = "GetMainVoxelDataMultiple"
    /\ OrderIs(given, V_interleave)
    /\ Len(LeadingSets(given, 1)) = 2
    /\ given.sets[1][1].rows = <<<<1>>, <<11>>>>
    /\ given.sets[2][1].rows = <<<<2>>, <<12>>>>
    /\ call.ret.rows = <<<<1>>, <<2>>, <<11>>, <<12>>>>

\* the rows of the data sets one set after the other
RECURSIVE RowsInOrder(_)
RowsInOrder(sets) ==
    IF sets = <<>> THEN <<>> ELSE Head(sets).rows \o RowsInOrder(Tail(sets))

\* C12: with data-order concatenate and N data sets (of any numbers of
\* timepoints) GetMainVoxelDataMultiple returns all rows of data1, then all
\* rows of data2, and so on.
C12_Concatenate ==
    LET sets == LeadingSets(given, 1)
    IN  (call.op = "GetMainVoxelDataMultiple" /\ OrderIs(given, V_concatenate)
         /\ Len(sets) >= 1) =>
            /\ call.err = "none"
            /\ call.ret.rows = RowsInOrder(sets)
            /\ call.ret.ncols = sets[1].ncols

\* data sets of one and of two timepoints have been concatenated
C12_Witness ==
    /\ call.op = "GetMainVoxelDataMultiple"
    /\ OrderIs(given, V_concatenate)
    /\ Len(LeadingSets(given, 1)) = 2
    /\ given.sets[1][1].rows = <<<<1>>>>
    /\ given.sets[2][1].rows = <<<<2>>, <<12>>>>
    /\ call.ret.rows = <<<<1>>, <<2>>, <<12>>>>

\* C13: singlefile with more than one data set, interleave with data sets
\* of different numbers of timepoints, and a data-order that is none of
\* interleave, concatenate, singlefile all end in InvalidOptionValue.
C13_InvalidOrderRejected ==
    LET sets == LeadingSets(given, 1)
        N == Len(sets)
    IN  (call.op = "GetMainVoxelDataMultiple" /\ N >= 1
         /\ \/ OrderIs(given, V_singlefile) /\ N > 1
            \/ OrderIs(given, V_interleave)
               /\ \E j, k \in 1..N : Len(sets[j].rows) # Len(sets[k].rows)
            \/ given.order # <<>>
               /\ given.order[1] \notin {V_interleave, V_concatenate, V_singlefile}) =>
            call.err = "InvalidOptionValue"

\* the permutations of 0..(N - 1)
Perms(N) == {pi \in [0..(N - 1) -> 0..(N - 1)] :
                \A a, b \in 0..(N - 1) : pi[a] = pi[b] => a = b}

\* what is supplied when data set j + 1 of g is given as data set pi[j] + 1
Permuted(g, N, pi) ==
    [g EXCEPT !.sets = [n \in 1..MaxSets |->
        IF n <= N THEN g.sets[(CHOOSE j \in 0..(N - 1) : pi[j] = n - 1) + 1]
        ELSE g.sets[n]]]

\* how often row stands in rows
Times(rows, row) == Cardinality({r \in 1..Len(rows) : rows[r] = row})

\* C14: for interleave of N data sets of T timepoints each, supplying the
\* data sets in the order pi moves the rows within each block of N rows
\* accordingly (row N*i + pi(j) + 1 of the
\* new result is row N*i + j + 1 of the old one); the rows are the same
\* multiset and the size is the same.
C14_PermuteSets ==
    LET sets == LeadingSets(given, 1)
        N == Len(sets)
    IN  (call.op = "GetMainVoxelDataMultiple" /\ OrderIs(given, V_interleave)
         /\ N >= 1 /\ \A j \in 1..N : Len(sets[j].rows) = Len(sets[1].rows)) =>
            \A pi \in Perms(N) :
                LET g2 == Permuted(given, N, pi)
                    r2 == GetMainVoxelDataMultiple(OptionsOf(g2), StoreOf(g2), EmptyMat)
                    T == Len(call.ret.rows) \div N
                IN  /\ r2.err = "none"
                    /\ Len(r2.main.rows) = Len(call.ret.rows)
                    /\ r2.main.ncols = call.ret.ncols
                    /\ \A i \in 0..(T - 1), j \in 0..(N - 1) :
                          r2.main.rows[N * i + pi[j] + 1] = call.ret.rows[N * i + j + 1]
                    /\ \A r \in 1..Len(call.ret.rows) :
                          Times(r2.main.rows, call.ret.rows[r])
                              = Times(call.ret.rows, call.ret.rows[r])

\* two data sets that differ have been interleaved, so that swapping them
\* changes the result
C14_Witness ==
    /\ call.op = "GetMainVoxelDataMultiple"
    /\ OrderIs(given, V_interleave)
    /\ call.err = "none"
    /\ Len(LeadingSets(given, 1)) = 2
    /\ given.sets[1][1].rows = <<<<2>>, <<12>>>>
    /\ given.sets[2][1].rows = <<<<1>>, <<11>>>>
    /\ call.ret.rows = <<<<2>>, <<1>>, <<12>>, <<11>>>>

\* C15: GetMainVoxelData returns the matrix found under `data` whenever
\* there is one, whatever data-order and data1, data2, ... are, and leaves
\* the combination alone; it combines data1, data2, ... only when `data` is
\* not found and data1 is; when neither is found it raises the DataNotFound
\* of `data`.
C15_MainData ==
    [][call'.op = "GetMainVoxelData" =>
        /\ given.main # <<>> =>
              /\ call'.err = "none"
              /\ call'.ret = given.main[1]
              /\ m_mainDataMultiple' = m_mainDataMultiple
        /\ (given.main = <<>> /\ given.sets[1] # <<>>) =>
              LET r == GetMainVoxelDataMultiple(m_params, m_voxel_data, m_mainDataMultiple)
              IN  /\ call'.err = r.err
                  /\ r.err = "none" => call'.ret = r.main
                  /\ m_mainDataMultiple' = r.main
        /\ (given.main = <<>> /\ given.sets[1] = <<>>) =>
              /\ call'.err = "DataNotFound"
              /\ call'.key = K_data
              /\ m_mainDataMultiple' = m_mainDataMultiple
    ]_vars

\* `data` was returned although data1 and data2 are there and data-order
\* asks for one file only
C15_Witness ==
    /\ call.op = "GetMainVoxelData"
    /\ call.err = "none"
    /\ given.main # <<>> /\ call.ret = given.main[1]
    /\ given.sets[1] # <<>> /\ given.sets[2] # <<>>
    /\ given.order = <<V_singlefile>>

-----------------------------------------------------------------------------
(* SpecStore: the voxel data store under SetVoxelData, SaveVoxelData,      *)
(* SetVoxelCoords and ClearVoxelData.                                      *)

MaxVoxels == 2

\* the keys used, in the order std::map keeps them
SortedKeys == <<K_coords, K_data, <<"m">>>>

\* m_voxel_data.begin()->first
FirstKey(vd) ==
    SortedKeys[CHOOSE r \in 1..Len(SortedKeys) :
                  /\ SortedKeys[r] \in DOMAIN vd
                  /\ \A q \in 1..(r - 1) : SortedKeys[q] \notin DOMAIN vd]

\* the size test left out for a key that is in the store already
CheckSize_NewKeysOnly(vd, key, mat) ==
    IF vd # EmptyMap /\ ~HasKey(vd, key) /\ Ncols(mat) # Ncols(vd[FirstKey(vd)])
    THEN "InvalidOptionValue" ELSE "none"

\* FabberRunData::CheckSize(key, mat)
CheckSize(vd, key, mat) ==
    IF vd # EmptyMap /\ Ncols(mat) # Ncols(vd[FirstKey(vd)])
    THEN "InvalidOptionValue" ELSE "none"

\* FabberRunData::SetVoxelData(key, data): the error and the store after it
SetVoxelData(vd, key, data) ==
    IF CheckSize(vd, key, data) # "none"
    THEN [err |-> CheckSize(vd, key, data), vd |-> vd]
    ELSE [err |-> "none", vd |-> Put(vd, key, data)]

\* FabberRunData::ClearVoxelData(key)
ClearVoxelData(vd, key) == IF key # <<>> THEN Erase(vd, key) ELSE EmptyMap

\* Row(i).Maximum() and Row(i).Minimum()
RowMaximum(row) == CHOOSE x \in {row[c] : c \in 1..Len(row)} : \A c \in 1..Len(row) : row[c] <= x

RowMinimum(row) == CHOOSE x \in {row[c] : c \in 1..Len(row)} : \A c \in 1..Len(row) : row[c] >= x

\* FabberRunData::SetVoxelCoords(coords): the error, and the store, m_extent
\* and m_dims after it
SetVoxelCoords(vd, extent, dims, coords) ==
    IF Ncols(coords) > 0 /\ Nrows(coords) # 3
    THEN [err |-> "InvalidOptionValue", vd |-> vd, extent |-> extent, dims |-> dims]
    ELSE LET r == SetVoxelData(vd, K_coords, coords)
         IN  IF r.err # "none"
             THEN [err |-> r.err, vd |-> vd, extent |-> extent, dims |-> dims]
             ELSE IF Len(extent) # 0
             THEN [err |-> "none", vd |-> r.vd, extent |-> extent, dims |-> dims]
             ELSE [err |-> "none", vd |-> r.vd,
                   extent |-> [i \in 1..3 |->
                       IF Ncols(coords) > 0
                       THEN RowMaximum(coords.rows[i]) - RowMinimum(coords.rows[i]) + 1
                       ELSE 0],
                   dims |-> [i \in 1..3 |-> 1]]

\* the matrices handed in: one row of timepoints, or coordinates
TimeMats == {Mat(c, <<[v \in 1..c |-> 1]>>) : c \in 0..MaxVoxels}

CoordMats ==
    {Mat(0, <<>>)}
    \cup UNION {{Mat(c, rows) :
                    rows \in [1..3 -> {[v \in 1..c |-> 0], [v \in 1..c |-> v - 1]}]} :
                c \in 1..MaxVoxels}
    \cup {Mat(c, <<[v \in 1..c |-> 0], [v \in 1..c |-> 1]>>) : c \in 1..MaxVoxels}

InitStore ==
    /\ m_params = EmptyMap
    /\ m_voxel_data = EmptyMap
    /\ m_mainDataMultiple = EmptyMat
    /\ m_extent = <<>> /\ m_dims = <<>>
    /\ IdleIo
    /\ call = NoCall
    /\ IdleDir /\ IdleParse /\ IdleRun

StoreCall(op, key, mat, err) ==
    [op |-> op, key |-> key, mat |-> mat, err |-> err, before |-> m_voxel_data]

\* SetVoxelData(key, data)
StoreSetVoxelData ==
    /\ \E key \in {K_data, <<"m">>}, data \in TimeMats :
        LET r == SetVoxelData(m_voxel_data, key, data)
        IN  /\ m_voxel_data' = r.vd
            /\ call' = StoreCall("SetVoxelData", key, data, r.err)
    /\ UNCHANGED <<m_params, m_mainDataMultiple, m_extent, m_dims, dirVars, parseVars, runVars, ioVars>>

\* SaveVoxelData(filename, data, data_type)
StoreSaveVoxelData ==
    /\ \E filename \in {<<"m">>}, data \in TimeMats :
        LET r == SetVoxelData(m_voxel_data, filename, data)
        IN  /\ m_voxel_data' = r.vd
            /\ call' = StoreCall("SaveVoxelData", filename, data, r.err)
    /\ UNCHANGED <<m_params, m_mainDataMultiple, m_extent, m_dims, dirVars, parseVars, runVars, ioVars>>

\* SetVoxelCoords(coords)
StoreSetVoxelCoords ==
    /\ \E coords \in CoordMats :
        LET r == SetVoxelCoords(m_voxel_data, m_extent, m_dims, coords)
        IN  /\ m_voxel_data' = r.vd
            /\ m_extent' = r.extent
            /\ m_dims' = r.dims
            /\ call' = StoreCall("SetVoxelCoords", K_coords, coords, r.err)
    /\ UNCHANGED <<m_params, m_mainDataMultiple, dirVars, parseVars, runVars, ioVars>>

\* ClearVoxelData(key); the empty key clears the whole store
StoreClearVoxelData ==
    /\ \E key \in {<<>>, K_coords, K_data, <<"m">>} :
        /\ m_voxel_data' = ClearVoxelData(m_voxel_data, key)
        /\ call' = StoreCall("ClearVoxelData", key, EmptyMat, "none")
    /\ UNCHANGED <<m_params, m_mainDataMultiple, m_extent, m_dims, dirVars, parseVars, runVars, ioVars>>

NextStore ==
    \/ StoreSetVoxelData
    \/ StoreSaveVoxelData
    \/ StoreSetVoxelCoords
    \/ StoreClearVoxelData

SpecStore == InitStore /\ [][NextStore]_vars

\* C16: all matrices in the store have the same number of columns, and a
\* call that hands in a matrix with another number of columns than the
\* stored ones raises InvalidOptionValue and leaves the store as it was.
C16_SameVoxels ==
    /\ \A k1, k2 \in DOMAIN m_voxel_data :
          m_voxel_data[k1].ncols = m_voxel_data[k2].ncols
    /\ (call.op \in {"SetVoxelData", "SaveVoxelData", "SetVoxelCoords"}
        /\ \E k \in DOMAIN call.before : call.before[k].ncols # call.mat.ncols) =>
            /\ call.err = "InvalidOptionValue"
            /\ m_voxel_data = call.before

\* the only matrix of the store was to be replaced by a wider one
C16_Witness ==
    /\ call.op = "SetVoxelData"
    /\ call.key = K_data
    /\ DOMAIN call.before = {K_data}
    /\ call.before[K_data].ncols = 1 /\ call.mat.ncols = 2
    /\ call.err = "InvalidOptionValue"

-----------------------------------------------------------------------------
(* FabberIoNewimage: the mask and the voxels it selects.  A float is kept  *)
(* as m * 10^e with one digit m (0 is F(0, 0)); a volume is a line of      *)
(* voxels, a mask volume holding one float per voxel and a data volume     *)
(* one time series per voxel.                                              *)

F(m, e) == [m |-> m, e |-> e]

\* a < b for floats
FloatLess(a, b) ==
    IF a.m <= 0 \/ b.m <= 0
    THEN IF a.m < 0 /\ b.m < 0
         THEN b.e < a.e \/ (b.e = a.e /\ a.m < b.m)
         ELSE (a.m < 0 /\ b.m >= 0) \/ (a.m = 0 /\ b.m > 0)
    ELSE a.e < b.e \/ (a.e = b.e /\ a.m < b.m)

\* the float nearest to x + 1, for the values a mask is given here: from
\* 2^24 on the sum is rounded back to x, below 1e-7 x is lost in the 1
FloatPlusOne(x) ==
    IF x.m > 0 /\ (x.e > 7 \/ (x.e = 7 /\ x.m >= 2)) THEN x
    ELSE IF x.m = 0 \/ x.e < 0 - 7 THEN F(1, 0)
    ELSE IF x.m = 0 - 1 /\ x.e = 0 THEN F(0, 0)
    ELSE IF x.m < 9 THEN F(x.m + 1, x.e)
    ELSE F(1, x.e + 1)

\* volume::max()
VolumeMax(values) ==
    CHOOSE x \in {values[v] : v \in 1..Len(values)} :
        \A v \in 1..Len(values) : ~FloatLess(x, values[v])

\* volume::binarise(lower, upper, exclusive)
binarise(values, lower, upper) ==
    [v \in 1..Len(values) |->
        IF FloatLess(lower, values[v]) /\ FloatLess(values[v], upper)
        THEN F(1, 0) ELSE F(0, 0)]

\* the voxels volume4D::matrix(mask) takes, in their order
MaskedVoxels(mask) == SelectSeq([v \in 1..Len(mask) |-> v],
                                LAMBDA v : FloatLess(F(5, 0 - 1), mask[v]))

\* volume4D::matrix(mask): one column per voxel taken, one row per volume
VolumeMatrix(series, mask, nt) ==
    LET vox == MaskedVoxels(mask)
    IN  Mat(Len(vox), [t \in 1..nt |-> [c \in 1..Len(vox) |-> series[vox[c]][t]]])

\* the volume SetVoxelCoordsFromExtent makes: voxel i of the line has the
\* coordinates (i - 1, 0, 0)
CoordVol(nx) == [v \in 1..nx |-> <<v - 1, 0, 0>>]

\* FabberIoNewimage::SetVoxelCoordsFromExtent(nx, 1, 1)
SetVoxelCoordsFromExtent(vd, extent, dims, mask, have_mask, nx) ==
    LET coords == IF have_mask THEN VolumeMatrix(CoordVol(nx), mask, 3)
                  ELSE VolumeMatrix(CoordVol(nx), [v \in 1..nx |-> F(1, 0)], 3)
        r == IF have_mask /\ Len(mask) # nx
             THEN [err |-> "Exception", vd |-> vd, extent |-> extent, dims |-> dims]
             ELSE SetVoxelCoords(vd, extent, dims, coords)
    IN  IF r.err # "none" THEN r @@ [have_coords |-> FALSE]
        ELSE [err |-> "none", vd |-> r.vd, extent |-> <<nx, 1, 1>>, dims |-> r.dims,
              have_coords |-> TRUE]

(* SpecMask: Initialize and GetVoxelData of FabberIoNewimage on a mask     *)
(* file and a data file.  given holds the mask values as they stand in    *)
(* the mask file (<<>> when no mask is asked for), the size of the data   *)
(* volume and the log the object was given.                                *)

MaskNx == 3

K_mask == <<"m", "a", "s", "k">>

F_mask == <<"m", "a", "s", "k", ".", "n", "i", "i">>

F_data == <<"d", ".", "n", "i", "i">>

\* mask values: below, at and above 0, around the threshold 1e-16, 1, and
\* a value above 2^24
MaskValues == {F(0 - 1, 0), F(0, 0), F(1, 0 - 17), F(1, 0 - 16), F(2, 0 - 16),
               F(1, 0), F(2, 7)}

\* the data volume: one timepoint, voxel v holding 10 + v
DataSeries(nx) == [v \in 1..nx |-> <<10 + v>>]

\* m_log: no log, a log without an output directory, a log writing to
\* the directory out
Logs == {[have |-> FALSE, outdir |-> <<>>], [have |-> TRUE, outdir |-> <<>>],
         [have |-> TRUE, outdir |-> <<"o", "u", "t">>]}

\* EasyLog::GetOutputDirectory()
GetOutputDirectory(log) == log.outdir

\* the output directory Initialize settles on: m_outdir = ""; if (m_log)
\* m_log->GetOutputDirectory(); if (m_outdir == "") m_outdir = "."
InitializeOutdir(log) ==
    LET outdir == <<>>
        discarded == IF log.have THEN GetOutputDirectory(log) ELSE <<>>
    IN  IF outdir = <<>> THEN <<".">> ELSE outdir

\* volume4D::setmatrix(data, mask): column c of data goes to the c-th voxel
\* the mask takes, the other voxels hold 0
SetMatrix(data, mask) ==
    LET vox == MaskedVoxels(mask)
    IN  [v \in 1..Len(mask) |->
            [t \in 1..Len(data.rows) |->
                IF \E c \in 1..Len(vox) : vox[c] = v
                THEN data.rows[t][CHOOSE c \in 1..Len(vox) : vox[c] = v]
                ELSE 0]]

\* the names results are saved under
SaveNames == {<<"m", "e", "a", "n">>}

InitMask ==
    /\ given \in [mask : {<<>>} \cup [1..MaskNx -> MaskValues],
                  nx : {MaskNx, MaskNx + 1}, log : Logs]
    /\ m_params = [k \in {K_data} \cup (IF given.mask # <<>> THEN {K_mask} ELSE {}) |->
                      IF k = K_mask THEN F_mask ELSE F_data]
    /\ files = [n \in {F_data} \cup (IF given.mask # <<>> THEN {F_mask} ELSE {}) |->
                   IF n = F_mask THEN given.mask ELSE DataSeries(given.nx)]
    /\ argv = <<>>
    /\ call = NoCall
    /\ IdleDir /\ IdleRun /\ IdleData

\* FabberIoNewimage::Initialize(rundata)
IoInitialize ==
    /\ m_outdir' = InitializeOutdir(given.log)
    /\ LET mask_filename == GetStringDefault(m_params, K_mask, <<>>)
       IN  IF mask_filename # <<>>
           THEN IF ~HasKey(files, mask_filename)
                THEN /\ call' = [op |-> "Initialize", err |-> "Exception"]
                     /\ UNCHANGED <<dataVars>>
                ELSE LET vol == files[mask_filename]
                         mask == binarise(vol, F(1, 0 - 16), FloatPlusOne(VolumeMax(vol)))
                         r == SetVoxelCoordsFromExtent(m_voxel_data, m_extent, m_dims,
                                                       mask, TRUE, Len(vol))
                     IN  /\ m_mask' = mask
                         /\ m_have_mask' = TRUE
                         /\ m_voxel_data' = r.vd
                         /\ m_extent' = r.extent
                         /\ m_dims' = r.dims
                         /\ m_have_coords' = (IF r.err = "none" THEN TRUE ELSE m_have_coords)
                         /\ call' = [op |-> "Initialize", err |-> r.err]
                         /\ UNCHANGED m_mainDataMultiple
           ELSE LET r == GetMainVoxelData(m_params, m_voxel_data, m_mainDataMultiple)
                IN  /\ m_mainDataMultiple' = r.main
                    /\ call' = [op |-> "Initialize", err |-> r.err]
                    /\ UNCHANGED <<m_voxel_data, m_extent, m_dims, ioVars>>
    /\ UNCHANGED <<m_params, fs, hist, parseVars, runVars>>

\* FabberIoNewimage::GetVoxelData(filename), on an object that Initialize
\* was called on
IoGetVoxelData ==
    /\ call # NoCall
    /\ \E filename \in {F_data, <<"n", "o">>} :
        LET mem == LoadVoxelData(m_voxel_data, filename)
        IN  IF mem.err = "none"
            THEN /\ call' = [op |-> "GetVoxelData", err |-> "none", ret |-> mem.mat]
                 /\ UNCHANGED <<dataVars>>
            ELSE IF ~HasKey(files, filename)
            THEN /\ call' = [op |-> "GetVoxelData", err |-> "DataNotFound", ret |-> EmptyMat]
                 /\ UNCHANGED <<dataVars>>
            ELSE LET vol == files[filename]
                     mask == IF m_have_mask THEN m_mask ELSE [v \in 1..Len(vol) |-> F(1, 0)]
                     c == IF m_have_coords
                          THEN [err |-> "none", vd |-> m_voxel_data, extent |-> m_extent,
                                dims |-> m_dims, have_coords |-> TRUE]
                          ELSE SetVoxelCoordsFromExtent(m_voxel_data, m_extent, m_dims,
                                                        mask, TRUE, Len(vol))
                     err == IF c.err # "none" THEN c.err
                            ELSE IF Len(mask) # Len(vol) THEN "Exception" ELSE "none"
                     mat == VolumeMatrix(vol, mask, 1)
                 IN  /\ m_mask' = mask
                     /\ m_have_mask' = TRUE
                     /\ m_have_coords' = (IF c.err = "none" THEN TRUE ELSE m_have_coords)
                     /\ m_extent' = c.extent
                     /\ m_dims' = c.dims
                     /\ m_voxel_data' = IF err = "none" THEN Put(c.vd, filename, mat) ELSE c.vd
                     /\ call' = [op |-> "GetVoxelData", err |-> err,
                                 ret |-> IF err = "none" THEN mat ELSE EmptyMat]
                     /\ UNCHANGED m_mainDataMultiple
    /\ UNCHANGED <<m_params, dirVars, parseVars, runVars>>

\* FabberIoNewimage::SaveVoxelData(data, filename, data_type), on an
\* object whose extent is set, for a matrix the object holds
IoSaveVoxelData ==
    /\ call # NoCall
    /\ Len(m_extent) = 3
    /\ \E filename \in SaveNames :
       \E data \in {m_voxel_data[k] : k \in DOMAIN m_voxel_data} :
        LET nx == m_extent[1]
            mask == IF m_have_mask THEN m_mask ELSE [v \in 1..nx |-> F(1, 0)]
            path == IF m_outdir # <<>> THEN m_outdir \o <<"/">> \o filename
                    ELSE filename
        IN  IF Len(mask) # nx \/ data.ncols # Len(MaskedVoxels(mask))
            THEN /\ call' = [op |-> "SaveVoxelData", err |-> "Exception",
                             filename |-> filename, path |-> <<>>]
                 /\ UNCHANGED files
            ELSE /\ call' = [op |-> "SaveVoxelData", err |-> "none",
                             filename |-> filename, path |-> path]
                 /\ files' = Put(files, path, SetMatrix(data, mask))
    /\ UNCHANGED <<m_params, dirVars, argv, given, runVars, dataVars>>

NextMask == IoInitialize \/ IoGetVoxelData \/ IoSaveVoxelData

SpecMask == InitMask /\ [][NextMask]_vars

\* the voxels of the mask file with a value above 0, in their order
AboveZero(values) == SelectSeq([v \in 1..Len(values) |-> v],
                               LAMBDA v : FloatLess(F(0, 0), values[v]))

\* C17: with a mask given, the voxel coordinates Initialize sets and every
\* data matrix loaded afterwards hold exactly the voxels whose mask value
\* is above 0.
C17_MaskAboveZero ==
    (given.mask # <<>> /\ m_have_coords /\ HasKey(m_voxel_data, K_coords)
     /\ call.op \in {"Initialize", "GetVoxelData"} /\ call.err = "none") =>
        LET sel == AboveZero(given.mask)
        IN  /\ m_voxel_data[K_coords].ncols = Len(sel)
            /\ m_voxel_data[K_coords].rows[1] = [c \in 1..Len(sel) |-> sel[c] - 1]
            /\ HasKey(m_voxel_data, F_data) =>
                  m_voxel_data[F_data] = Mat(Len(sel), <<[c \in 1..Len(sel) |-> 10 + sel[c]]>>)

\* C24: on an object given a log with a non-empty output directory,
\* Initialize leaves that directory in m_outdir, and SaveVoxelData writes
\* the file of name filename to that directory.
C24_OutputDirOfLog ==
    (call # NoCall /\ given.log.have /\ given.log.outdir # <<>>) =>
        /\ m_outdir = given.log.outdir
        /\ (call.op = "SaveVoxelData" /\ call.err = "none") =>
              /\ call.path = given.log.outdir \o <<"/">> \o call.filename
              /\ HasKey(files, call.path)

-----------------------------------------------------------------------------
(* PolynomialFwdModel::Evaluate and NameParams.  An int is 32 bits wide;   *)
(* a sum of products, which the code keeps in a double, is kept exactly as *)
(* a number of any size: the sequence of its digits to the base 2^15,      *)
(* lowest first, without leading zeros.                                    *)

Base == 2 ^ 15

INT_MAX == 1073741824 + 1073741823

RECURSIVE BigOf(_)
BigOf(n) == IF n = 0 THEN <<>> ELSE <<n % Base>> \o BigOf(n \div Base)

RECURSIVE BigAddCarry(_, _, _)
BigAddCarry(a, b, carry) ==
    IF a = <<>> /\ b = <<>> THEN (IF carry = 0 THEN <<>> ELSE <<carry>>)
    ELSE LET x == IF a = <<>> THEN 0 ELSE Head(a)
             y == IF b = <<>> THEN 0 ELSE Head(b)
             t == x + y + carry
         IN  <<t % Base>> \o BigAddCarry(IF a = <<>> THEN <<>> ELSE Tail(a),
                                         IF b = <<>> THEN <<>> ELSE Tail(b),
                                         t \div Base)

BigAdd(a, b) == BigAddCarry(a, b, 0)

\* a * k for 0 <= k < 2^16
RECURSIVE BigMulCarry(_, _, _)
BigMulCarry(a, k, carry) ==
    IF a = <<>> THEN BigOf(carry)
    ELSE LET t == Head(a) * k + carry
         IN  <<t % Base>> \o BigMulCarry(Tail(a), k, t \div Base)

BigMulSmall(a, k) == IF k = 0 THEN <<>> ELSE BigMulCarry(a, k, 0)

\* the int whose 32 bits are the lowest 32 bits of a
Low32(a) ==
    LET l(n) == IF Len(a) >= n THEN a[n] ELSE 0
        low31 == l(1) + l(2) * Base + (l(3) % 2) * (Base * Base)
    IN  IF (l(3) \div 2) % 2 = 1 THEN (low31 - 1073741824) - 1073741824 ELSE low31

\* |p| as a number of any size
BigAbs(p) == IF p >= 0 THEN BigOf(p) ELSE BigAdd(BigOf(0 - (p + 1)), <<1>>)

\* -r in 32 bits
Neg32(r) == IF r = (0 - INT_MAX) - 1 THEN r ELSE 0 - r

\* p * i in 32 bits, the product wrapped around, for 0 < i < 2^16
Mul32(p, i) ==
    LET r == Low32(BigMulSmall(BigAbs(p), i))
    IN  IF p >= 0 THEN r ELSE Neg32(r)

\* p * i is outside the range of int
Overflows(p, i) ==
    LET prod == BigMulSmall(BigAbs(p), i)
    IN  IF p >= 0 THEN Len(prod) > 3 \/ (Len(prod) = 3 /\ prod[3] >= 2)
        ELSE /\ prod # <<0, 0, 2>>
             /\ (Len(prod) > 3 \/ (Len(prod) = 3 /\ prod[3] >= 2))

\* what a build makes of a signed overflow
OverflowOutcomes == {"wraps", "traps"}

\* the inner loop of Evaluate for timepoint i, from power n on: res is kept
\* as the sum of its positive and the sum of its negative terms
RECURSIVE EvaluateLoop(_, _, _, _, _, _, _)
EvaluateLoop(params, m_degree, i, n, p, res, ub) ==
    IF n > m_degree THEN [trapped |-> FALSE, res |-> res]
    ELSE LET term == BigMulSmall(BigAbs(p), params[n + 1])
             res1 == IF p >= 0 THEN [res EXCEPT !.pos = BigAdd(res.pos, term)]
                     ELSE [res EXCEPT !.neg = BigAdd(res.neg, term)]
         IN  IF Overflows(p, i) /\ ub = "traps" THEN [trapped |-> TRUE, res |-> res1]
             ELSE EvaluateLoop(params, m_degree, i, n + 1, Mul32(p, i), res1, ub)

\* the timepoints whose entry of the result is looked at
SampleTimes == {1, 2, 3, 1291, 46341}

\* PolynomialFwdModel::Evaluate(params, result) with data.Nrows() = nrows
Evaluate(params, m_degree, nrows, ub) ==
    LET at == {i \in SampleTimes : i <= nrows}
        r == [i \in at |->
                 EvaluateLoop(params, m_degree, i, 0, 1, [pos |-> <<>>, neg |-> <<>>], ub)]
    IN  IF \E i \in at : r[i].trapped
        THEN [err |-> "SIGABRT", nrows |-> 0, result |-> <<>>]
        ELSE [err |-> "none", nrows |-> nrows, result |-> [i \in at |-> r[i].res]]

\* PolynomialFwdModel::NameParams(names)
NameParams(names, m_degree) ==
    [i \in 1..(m_degree + 1) |-> <<"c">> \o stringify(i - 1)]

-----------------------------------------------------------------------------
(* SpecPoly: a polynomial model of some degree asked for its values, its   *)
(* number of parameters and their names.  given holds the degree, the     *)
(* parameters c0..cd and the number of timepoints of the data.            *)

MaxDegree == 3

Coefficients == {0, 1}

Timepoints == {0, 3, 1291, 46341}

InitPoly ==
    /\ given \in UNION {[m_degree : {d}, params : [1..(d + 1) -> Coefficients],
                         nrows : Timepoints] : d \in 0..MaxDegree}
    /\ call = NoCall
    /\ m_params = EmptyMap
    /\ argv = <<>> /\ files = EmptyMap
    /\ IdleDir /\ IdleRun /\ IdleData

\* Evaluate(params, result)
PolyEvaluate ==
    /\ \E ub \in OverflowOutcomes :
        LET r == Evaluate(given.params, given.m_degree, given.nrows, ub)
        IN  call' = [op |-> "Evaluate", err |-> r.err, nrows |-> r.nrows,
                     result |-> r.result]
    /\ UNCHANGED <<m_params, dirVars, parseVars, runVars, dataVars>>

\* NumParams()
PolyNumParams ==
    /\ call' = [op |-> "NumParams", err |-> "none", ret |-> NumParams(given.m_degree)]
    /\ UNCHANGED <<m_params, dirVars, parseVars, runVars, dataVars>>

\* NameParams(names), names holding anything before
PolyNameParams ==
    /\ \E names \in {<<>>, <<<<"x">>>>} :
        call' = [op |-> "NameParams", err |-> "none",
                 names |-> NameParams(names, given.m_degree)]
    /\ UNCHANGED <<m_params, dirVars, parseVars, runVars, dataVars>>

NextPoly == PolyEvaluate \/ PolyNumParams \/ PolyNameParams

SpecPoly == InitPoly /\ [][NextPoly]_vars

\* the sum over n = from..d of c_n * i^(n - from), by Horner's rule
RECURSIVE PolyValue(_, _, _, _)
PolyValue(params, d, i, from) ==
    IF from > d THEN <<>>
    ELSE BigAdd(BigOf(params[from + 1]),
                BigMulSmall(PolyValue(params, d, i, from + 1), i))

\* C18: Evaluate returns T entries, the i-th being the sum over n = 0..d of
\* c_n * i^n; NumParams is d + 1; NameParams yields exactly c0, ..., cd.
C18_Polynomial ==
    /\ call.op = "Evaluate" =>
          /\ call.err = "none"
          /\ call.nrows = given.nrows
          /\ \A i \in DOMAIN call.result :
                call.result[i].pos
                    = BigAdd(PolyValue(given.params, given.m_degree, i, 0),
                             call.result[i].neg)
    /\ call.op = "NumParams" => call.ret = given.m_degree + 1
    /\ call.op = "NameParams" =>
          /\ Len(call.names) = given.m_degree + 1
          /\ \A n \in 0..given.m_degree : call.names[n + 1] = <<"c">> \o stringify(n)

\* int p of Evaluate where a build that wraps multiplies it with parameter
\* n for timepoint i: p = 1, and p *= i after each parameter
RECURSIVE PowerAt(_, _)
PowerAt(i, n) == IF n = 0 THEN 1 ELSE Mul32(PowerAt(i, n - 1), i)

\* i^n as a number of any size
RECURSIVE BigPow(_, _)
BigPow(i, n) == IF n = 0 THEN <<1>> ELSE BigMulSmall(BigPow(i, n - 1), i)

\* C30: in Evaluate, for every timepoint i and every n up to the degree,
\* p is i^n where it is multiplied with parameter n, and the p *= i that
\* follows, the last one included, stays within the range of int.
C30_PowerInRange ==
    call.op = "Evaluate" =>
        \A i \in {t \in SampleTimes : t <= given.nrows} :
            \A n \in 0..given.m_degree :
                /\ PowerAt(i, n) >= 0
                /\ BigOf(PowerAt(i, n)) = BigPow(i, n)
                /\ ~Overflows(PowerAt(i, n), i)

-----------------------------------------------------------------------------
(* IdentityTransform, LogTransform and SoftPlusTransform.  A double is     *)
(* modelled by its class, its sign and its magnitude; the magnitude is a   *)
(* number of any size counting units of 2^-120, so that every double       *)
(* between 2^-67 and 2^1023 is held exactly.  Each operation is computed   *)
(* to 2^-120 and then rounded to 53 significant bits, to nearest, ties to  *)
(* even, as the processor and the mathematical library do.                 *)

\* a without leading zeros
RECURSIVE BigNorm(_)
BigNorm(a) ==
    IF a # <<>> /\ a[Len(a)] = 0 THEN BigNorm(SubSeq(a, 1, Len(a) - 1)) ELSE a

RECURSIVE BigLessFrom(_, _, _)
BigLessFrom(a, b, n) ==
    IF n = 0 THEN FALSE
    ELSE IF a[n] # b[n] THEN a[n] < b[n]
    ELSE BigLessFrom(a, b, n - 1)

\* a < b
BigLess(a, b) == IF Len(a) # Len(b) THEN Len(a) < Len(b) ELSE BigLessFrom(a, b, Len(a))

RECURSIVE BigSubBorrow(_, _, _)
BigSubBorrow(a, b, borrow) ==
    IF a = <<>> THEN <<>>
    ELSE LET y == IF b = <<>> THEN 0 ELSE Head(b)
             t == (Head(a) + Base) - (y + borrow)
         IN  <<t % Base>> \o BigSubBorrow(Tail(a), IF b = <<>> THEN <<>> ELSE Tail(b),
                                          IF t < Base THEN 1 ELSE 0)

\* a - b for a >= b
BigSub(a, b) == BigNorm(BigSubBorrow(a, b, 0))

\* a * Base^n
BigShiftDigits(a, n) == IF a = <<>> THEN <<>> ELSE [i \in 1..n |-> 0] \o a

\* a times the digits st.i..1 of b, added to st.acc * Base^(st.i)
RECURSIVE BigMulFrom(_, _, _)
BigMulFrom(a, b, st) ==
    IF st.i = 0 THEN st.acc
    ELSE BigMulFrom(a, b, [i |-> st.i - 1,
                           acc |-> BigAdd(BigShiftDigits(st.acc, 1),
                                          BigMulSmall(a, b[st.i]))])

\* a * b
BigMul(a, b) == BigMulFrom(a, b, [i |-> Len(b), acc |-> <<>>])

RECURSIVE BigDivSmallFrom(_, _, _, _)
BigDivSmallFrom(a, d, n, rem) ==
    IF n = 0 THEN <<>>
    ELSE LET t == rem * Base + a[n]
         IN  BigDivSmallFrom(a, d, n - 1, t % d) \o <<t \div d>>

\* a \div d for 0 < d <= 2^15
BigDivSmall(a, d) == BigNorm(BigDivSmallFrom(a, d, Len(a), 0))

\* a * 2^t
BigShl(a, t) == BigShiftDigits(BigMulSmall(a, 2 ^ (t % 15)), t \div 15)

\* a \div 2^t
BigShr(a, t) ==
    IF Len(a) <= t \div 15 THEN <<>>
    ELSE BigDivSmall(SubSeq(a, (t \div 15) + 1, Len(a)), 2 ^ (t % 15))

RECURSIVE BitsOf(_)
BitsOf(n) == IF n = 0 THEN 0 ELSE 1 + BitsOf(n \div 2)

\* the number of bits of a
BitLength(a) == IF a = <<>> THEN 0 ELSE 15 * (Len(a) - 1) + BitsOf(a[Len(a)])

\* bit i of a, the lowest being bit 0
Bit(a, i) == IF Len(a) <= i \div 15 THEN 0 ELSE (a[(i \div 15) + 1] \div (2 ^ (i % 15))) % 2

\* a * Base + d
BigPush(a, d) == IF a = <<>> /\ d = 0 THEN <<>> ELSE <<d>> \o a

\* the digit q with D * q <= rem < D * (q + 1), for rem < D * Base and the
\* highest digit of D at least Base / 2: at most 2 below the estimate made
\* from the two highest digits of rem
QuotientDigit(rem, D) ==
    LET n == Len(D)
        l(k) == IF Len(rem) >= k THEN rem[k] ELSE 0
        est == (l(n + 1) * Base + l(n)) \div D[n]
        qhat == IF est >= Base THEN Base - 1 ELSE est
    IN  CHOOSE c \in {k \in (qhat - 2)..qhat : k >= 0} :
            /\ ~BigLess(rem, BigMulSmall(D, c))
            /\ BigLess(rem, BigMulSmall(D, c + 1))

\* long division of the digits st.i..1 of N after the higher ones left st.rem
RECURSIVE BigDivFrom(_, _, _)
BigDivFrom(N, D, st) ==
    IF st.i = 0 THEN st.q
    ELSE LET rem == BigPush(st.rem, N[st.i])
             c == QuotientDigit(rem, D)
         IN  BigDivFrom(N, D, [i |-> st.i - 1, rem |-> BigSub(rem, BigMulSmall(D, c)),
                               q |-> BigPush(st.q, c)])

\* N \div D for D > 0
BigDiv(N, D) ==
    LET s == 15 - BitsOf(D[Len(D)])
        Nn == BigShl(N, s)
    IN  BigDivFrom(Nn, BigShl(D, s), [i |-> Len(Nn), rem |-> <<>>, q |-> <<>>])

\* the magnitudes count units of Base^-FracDigits = 2^-120
FracDigits == 8

FracBits == 15 * FracDigits

\* the magnitude of the integer n >= 0
FInt(n) == BigShiftDigits(BigOf(n), FracDigits)

FMul(a, b) ==
    LET p == BigMul(a, b)
    IN  IF Len(p) <= FracDigits THEN <<>> ELSE SubSeq(p, FracDigits + 1, Len(p))

FDiv(a, b) == BigDiv(BigShiftDigits(a, FracDigits), b)

\* the integer part of a magnitude below 2^15, and the rest
FFloor(a) == IF Len(a) <= FracDigits THEN 0 ELSE a[FracDigits + 1]

FFrac(a) == BigNorm(SubSeq(a, 1, IF Len(a) < FracDigits THEN Len(a) ELSE FracDigits))

\* a magnitude rounded to 53 significant bits, to nearest, ties to even
RoundDouble(a) ==
    IF BitLength(a) <= 53 THEN a
    ELSE LET t == BitLength(a) - 53
             q == BigShr(a, t)
             r == BigSub(a, BigShl(q, t))
             half == BigShl(<<1>>, t - 1)
             up == BigLess(half, r) \/ (r = half /\ Bit(q, 0) = 1)
         IN  BigShl(IF up THEN BigAdd(q, <<1>>) ELSE q, t)

\* the doubles: finite ones, the two infinities and not-a-number (the sign
\* of a zero is not kept)
Finite(neg, mag) == [cls |-> "finite", neg |-> neg /\ mag # <<>>, mag |-> mag]

PosInf == [cls |-> "inf", neg |-> FALSE, mag |-> <<>>]

NegInf == [cls |-> "inf", neg |-> TRUE, mag |-> <<>>]

NaN == [cls |-> "nan", neg |-> FALSE, mag |-> <<>>]

FOne == FInt(1)

\* the double nearest to n / d, for 0 < d <= 2^15
DRat(n, d) ==
    Finite(n < 0, RoundDouble(BigDivSmall(FInt(IF n < 0 THEN 0 - n ELSE n), d)))

\* a + b and a - b in double arithmetic
DAdd(a, b) ==
    IF a.cls = "nan" \/ b.cls = "nan" THEN NaN
    ELSE IF a.cls = "inf" THEN (IF b.cls = "inf" /\ b.neg # a.neg THEN NaN ELSE a)
    ELSE IF b.cls = "inf" THEN b
    ELSE IF a.neg = b.neg THEN Finite(a.neg, RoundDouble(BigAdd(a.mag, b.mag)))
    ELSE IF BigLess(a.mag, b.mag) THEN Finite(b.neg, RoundDouble(BigSub(b.mag, a.mag)))
    ELSE Finite(a.neg, RoundDouble(BigSub(a.mag, b.mag)))

DSub(a, b) == DAdd(a, [b EXCEPT !.neg = b.cls # "nan" /\ b.mag # <<>> /\ ~b.neg])

\* the sum of the terms r^k / k! from st.term = r^(st.k) / (st.k)! on
RECURSIVE ExpTaylor(_, _)
ExpTaylor(r, st) ==
    IF st.term = <<>> THEN st.sum
    ELSE ExpTaylor(r, [k |-> st.k + 1,
                       term |-> BigDivSmall(FMul(st.term, r), st.k + 1),
                       sum |-> BigAdd(st.sum, st.term)])

\* b^n from the bit st.i of n down, st.acc being b^(n \div 2^(st.i + 1))
RECURSIVE FPowFrom(_, _, _)
FPowFrom(b, n, st) ==
    IF st.i < 0 THEN st.acc
    ELSE FPowFrom(b, n, [i |-> st.i - 1,
                         acc |-> IF (n \div (2 ^ st.i)) % 2 = 1
                                 THEN FMul(FMul(st.acc, st.acc), b)
                                 ELSE FMul(st.acc, st.acc)])

\* b^n for 0 <= n < 2^15
FPow(b, n) == FPowFrom(b, n, [i |-> BitsOf(n) - 1, acc |-> FOne])

\* e^(1/256) and e
E256 == ExpTaylor(BigDivSmall(FOne, 256), [k |-> 0, term |-> FOne, sum |-> <<>>])

E1 == FPow(E256, 256)

\* e^a for a magnitude a = i + n / 256 + r with 0 <= n < 256, 0 <= r < 1 / 256
ExpMagnitude(a) ==
    LET f256 == BigMulSmall(FFrac(a), 256)
        r == BigDivSmall(FFrac(f256), 256)
    IN  FMul(FMul(FPow(E1, FFloor(a)), FPow(E256, FFloor(f256))),
             ExpTaylor(r, [k |-> 0, term |-> FOne, sum |-> <<>>]))

\* the largest argument whose exponential is a double (709.7827...), and
\* the magnitude from which on the exponential of the negative is zero
ExpOverflowsAbove == BigDivSmall(FInt(283913), 400)

ExpVanishesFrom == 746

\* exp(val) of the mathematical library
exp(val) ==
    IF val.cls = "nan" THEN NaN
    ELSE IF val.cls = "inf" THEN (IF val.neg THEN Finite(FALSE, <<>>) ELSE PosInf)
    ELSE IF ~val.neg /\ BigLess(ExpOverflowsAbove, val.mag) THEN PosInf
    ELSE IF val.neg /\ ~BigLess(val.mag, FInt(ExpVanishesFrom)) THEN Finite(FALSE, <<>>)
    ELSE IF val.neg THEN Finite(FALSE, RoundDouble(FDiv(FOne, ExpMagnitude(val.mag))))
    ELSE Finite(FALSE, RoundDouble(ExpMagnitude(val.mag)))

\* the sum of the terms z^j / j for odd j from st.j on, st.pw being z^(st.j)
RECURSIVE AtanhSeries(_, _)
AtanhSeries(z2, st) ==
    IF st.pw = <<>> THEN st.sum
    ELSE AtanhSeries(z2, [j |-> st.j + 2, pw |-> FMul(st.pw, z2),
                          sum |-> BigAdd(st.sum, BigDivSmall(st.pw, st.j))])

\* ln(n / d) = 2 * atanh((n - d) / (n + d)) for magnitudes n >= d > 0
LogRatio(n, d) ==
    LET z == FDiv(BigSub(n, d), BigAdd(n, d))
    IN  BigMulSmall(AtanhSeries(FMul(z, z), [j |-> 1, pw |-> z, sum |-> <<>>]), 2)

\* ln(1 + j / 16), as the sum of the ln((16 + i) / (15 + i)) for i = 1..j
RECURSIVE LnSixteenth(_)
LnSixteenth(j) ==
    IF j = 0 THEN <<>>
    ELSE BigAdd(LnSixteenth(j - 1), LogRatio(FInt(16 + j), FInt(15 + j)))

LnTable == [j \in 0..16 |-> LnSixteenth(j)]

Ln2 == LnTable[16]

\* ln(m) for a magnitude 1 <= m < 2: m = (1 + j / 16) * (m / (1 + j / 16))
LogMantissa(m) ==
    LET m16 == BigMulSmall(m, 16)
        j == FFloor(m16) - 16
    IN  BigAdd(LnTable[j], LogRatio(m16, FInt(16 + j)))

\* log(val) of the mathematical library: val = m * 2^k with 1 <= m < 2
log(val) ==
    IF val.cls = "nan" THEN NaN
    ELSE IF val.mag = <<>> /\ val.cls = "finite" THEN NegInf
    ELSE IF val.neg THEN NaN
    ELSE IF val.cls = "inf" THEN PosInf
    ELSE LET k == (BitLength(val.mag) - 1) - FracBits
             m == IF k >= 0 THEN BigShr(val.mag, k) ELSE BigShl(val.mag, 0 - k)
         IN  IF k >= 0
             THEN Finite(FALSE, RoundDouble(BigAdd(BigMulSmall(Ln2, k), LogMantissa(m))))
             ELSE Finite(TRUE, RoundDouble(BigSub(BigMulSmall(Ln2, 0 - k), LogMantissa(m))))

Transforms == {"IdentityTransform", "LogTransform", "SoftPlusTransform"}

\* Transform::ToModel(val) of the class t
ToModel(t, val) ==
    IF t = "IdentityTransform" THEN val
    ELSE IF t = "LogTransform" THEN exp(val)
    ELSE log(DAdd(DRat(1, 1), exp(val)))

\* Transform::ToFabber(val) of the class t
ToFabber(t, val) ==
    IF t = "IdentityTransform" THEN val
    ELSE IF t = "LogTransform" THEN log(val)
    ELSE log(DSub(exp(val), DRat(1, 1)))

-----------------------------------------------------------------------------
(* SpecTransform: a value taken through a transform.  given holds the      *)
(* class of the transform and the value; ToFabber is applied either to     *)
(* the given value or to what ToModel made of it.                          *)

MaxArg == 40

\* values beyond the range of exp, and a positive value below 2^-53
ExtremeArgs ==
    {DRat(710, 1), DRat(1000, 1), DRat(-1000, 1),
     Finite(FALSE, BigShl(<<1>>, FracBits - 57))}

TransformArgs == {DRat(n, 2) : n \in (0 - 2 * MaxArg)..(2 * MaxArg)} \cup ExtremeArgs

InitTransform ==
    /\ given \in [transform : Transforms, val : TransformArgs]
    /\ call = NoCall
    /\ m_params = EmptyMap
    /\ argv = <<>> /\ files = EmptyMap
    /\ IdleDir /\ IdleRun /\ IdleData

\* ToModel(val)
TransformToModel ==
    /\ call = NoCall
    /\ call' = [op |-> "ToModel", after |-> "none", arg |-> given.val,
                ret |-> ToModel(given.transform, given.val)]
    /\ UNCHANGED <<m_params, dirVars, parseVars, runVars, dataVars>>

\* ToFabber(val), val being the given value or the value ToModel returned
TransformToFabber ==
    /\ call = NoCall \/ call.op = "ToModel"
    /\ LET val == IF call = NoCall THEN given.val ELSE call.ret
       IN  call' = [op |-> "ToFabber", after |-> call.op, arg |-> val,
                    ret |-> ToFabber(given.transform, val)]
    /\ UNCHANGED <<m_params, dirVars, parseVars, runVars, dataVars>>

NextTransform == TransformToModel \/ TransformToFabber

SpecTransform == InitTransform /\ [][NextTransform]_vars

\* |a - b| <= 1 / (d1 * d2 * d3) for finite doubles a and b
Within(a, b, d1, d2, d3) ==
    /\ a.cls = "finite" /\ b.cls = "finite"
    /\ LET diff == IF a.neg # b.neg THEN BigAdd(a.mag, b.mag)
                   ELSE IF BigLess(a.mag, b.mag) THEN BigSub(b.mag, a.mag)
                   ELSE BigSub(a.mag, b.mag)
       IN  ~BigLess(BigDivSmall(BigDivSmall(BigDivSmall(FOne, d1), d2), d3), diff)

\* C19: ToFabber(ToModel(x)) is x for the identity, within 1e-10 of x for
\* the log transform and, for |x| <= 20, within 1e-8 of x for softplus.
C19_RoundTrip ==
    (call.op = "ToFabber" /\ call.after = "ToModel") =>
        /\ given.transform = "IdentityTransform" => call.ret = given.val
        /\ given.transform = "LogTransform" =>
              Within(call.ret, given.val, 10000, 10000, 100)
        /\ (given.transform = "SoftPlusTransform"
              /\ ~BigLess(FInt(20), given.val.mag)) =>
              Within(call.ret, given.val, 10000, 10000, 1)

\* C20: softplus returns a finite value for every finite argument of its
\* domain (any value for ToModel, a positive one for ToFabber), and for an
\* argument above 30 a value within 1e-8 of the argument.
C20_SoftPlusGuarded ==
    (/\ given.transform = "SoftPlusTransform"
     /\ call.op \in {"ToModel", "ToFabber"}
     /\ call.arg.cls = "finite"
     /\ call.op = "ToFabber" => (~call.arg.neg /\ call.arg.mag # <<>>)) =>
        /\ call.ret.cls = "finite"
        /\ (~call.arg.neg /\ BigLess(FInt(30), call.arg.mag)) =>
              Within(call.ret, call.arg, 10000, 10000, 1)

-----------------------------------------------------------------------------
(* SpecProgress: calls of PercentProgressCheck::Progress on one object.    *)
(* events lists the percentages printed; pc is "aborted" once a build      *)
(* that traps on signed overflow has stopped the process.                  *)

\* the constructor of PercentProgressCheck leaves m_last at -1
InitialLast == -1

\* the largest voxel count whose hundredfold is an int
MaxExactCount == INT_MAX \div 100

\* image sizes of 1 .. MaxSmallCount voxels, and the sizes around
\* MaxExactCount
MaxSmallCount == 4

VoxelCounts == (1..MaxSmallCount) \cup {MaxExactCount, MaxExactCount + 1}

\* a / b of two ints with b > 0, rounded towards zero
IntDiv(a, b) ==
    IF a >= 0 THEN a \div b
    ELSE IF a = (0 - INT_MAX) - 1
    THEN 0 - ((INT_MAX \div b) + (IF (INT_MAX % b) + 1 = b THEN 1 ELSE 0))
    ELSE 0 - ((0 - a) \div b)

\* void PercentProgressCheck::Progress(int voxel, int nVoxels): the new
\* m_last and what is printed (the percentage, or none); ub is what the
\* build makes of an overflow of 100 * voxel
Progress(last, voxel, nVoxels, ub) ==
    IF nVoxels = 0
    THEN [trapped |-> FALSE, m_last |-> last, printed |-> <<100>>]
    ELSE IF Overflows(voxel, 100) /\ ub = "traps"
    THEN [trapped |-> TRUE, m_last |-> last, printed |-> <<>>]
    ELSE LET percent == IntDiv(Mul32(voxel, 100), nVoxels)
         IN  IF percent > last
             THEN [trapped |-> FALSE, m_last |-> percent, printed |-> <<percent>>]
             ELSE [trapped |-> FALSE, m_last |-> last, printed |-> <<>>]

InitProgress ==
    /\ m_last = InitialLast
    /\ pc = "idle"
    /\ events = <<>>
    /\ call = NoCall
    /\ m_params = EmptyMap
    /\ IdleDir /\ IdleParse /\ IdleData

\* a call Progress(voxel, nVoxels) with nVoxels > 0 and 0 <= voxel <= nVoxels
ProgressCall ==
    \E nVoxels \in VoxelCounts, ub \in OverflowOutcomes :
        \E voxel \in {v \in {0} \cup VoxelCounts : v <= nVoxels} :
            LET r == Progress(m_last, voxel, nVoxels, ub)
            IN  /\ pc = "idle"
                /\ pc' = IF r.trapped THEN "aborted" ELSE "idle"
                /\ m_last' = r.m_last
                /\ events' = events \o r.printed
                /\ call' = [op |-> "Progress", voxel |-> voxel,
                            nVoxels |-> nVoxels, printed |-> r.printed]
                /\ UNCHANGED <<m_params, dirVars, parseVars, dataVars>>

NextProgress == ProgressCall

SpecProgress == InitProgress /\ [][NextProgress]_vars

\* C23: the percentages printed are strictly increasing and lie in 0..100,
\* and after a call with voxel = nVoxels 100% has been printed, by this
\* call or by an earlier one.
C23_PercentPrinted ==
    /\ \A i \in 1..Len(events) : events[i] \in 0..100
    /\ \A i \in 1..(Len(events) - 1) : events[i] < events[i + 1]
    /\ (call.op = "Progress" /\ call.voxel = call.nVoxels) =>
            \E i \in 1..Len(events) : events[i] = 100

-----------------------------------------------------------------------------
(* SpecChain: FabberRunData::GetVoxelData(key), one statement of its loop  *)
(* at a time, on option maps that send names to names.  call holds the     *)
(* locals key_cur and data_key and whether the number of turns of the     *)
(* loop so far is odd; pc is "while" at the test of the loop, "load"       *)
(* before LoadVoxelData and "returned" after it.                           *)

ChainNames == {<<"a">>, <<"b">>, <<"c">>}

ChainOptions == MapsOver(ChainNames, {<<>>} \cup ChainNames)

ChainData == {[k \in d |-> Mat(1, <<k>>)] : d \in SUBSET ChainNames}

InitChain ==
    /\ m_params \in ChainOptions
    /\ m_voxel_data \in ChainData
    /\ pc = "idle"
    /\ events = <<>>
    /\ m_last = -1
    /\ call = NoCall
    /\ m_mainDataMultiple = EmptyMat /\ m_extent = <<>> /\ m_dims = <<>>
    /\ IdleDir /\ IdleParse /\ IdleIo

\* GetVoxelData(key) is entered: key_cur = key, data_key = ""
ChainEnter ==
    /\ pc = "idle"
    /\ \E key \in ChainNames :
          call' = [op |-> "GetVoxelData", key |-> key, key_cur |-> key,
                   data_key |-> <<>>, odd |-> FALSE, err |-> "none",
                   ret |-> EmptyMat]
    /\ pc' = "while"
    /\ UNCHANGED <<m_params, events, m_last, dirVars, parseVars, dataVars>>

\* the test of the while loop and, when it holds, one turn of its body
ChainWhile ==
    /\ pc = "while"
    /\ IF call.key_cur = <<>>
       THEN pc' = "load" /\ UNCHANGED call
       ELSE LET next == GetStringDefault(m_params, call.key_cur, <<>>)
            IN  /\ call' = [call EXCEPT !.data_key = call.key_cur,
                                        !.key_cur = next, !.odd = ~call.odd]
                /\ pc' = IF next = call.key THEN "load" ELSE "while"
    /\ UNCHANGED <<m_params, events, m_last, dirVars, parseVars, dataVars>>

\* return LoadVoxelData(data_key)
ChainLoad ==
    /\ pc = "load"
    /\ LET r == LoadVoxelData(m_voxel_data, call.data_key)
       IN  call' = [call EXCEPT !.err = r.err, !.ret = r.mat]
    /\ pc' = "returned"
    /\ UNCHANGED <<m_params, events, m_last, dirVars, parseVars, dataVars>>

NextChain == ChainEnter \/ ChainWhile \/ ChainLoad

SpecChain == InitChain /\ [][NextChain]_vars

\* the thread that called GetVoxelData keeps executing it
SpecChainFair == SpecChain /\ WF_vars(NextChain)

\* C29: a call of GetVoxelData comes to its end, returning voxel data or
\* raising DataNotFound, whatever the option map is.
C29_Terminates == (pc = "while") ~> (pc = "returned")

=============================================================================
